---- MODULE Spec2Model ----
(***************************************************************************)
(* Token-ring metadata (locator/token_metadata.cc): the token_metadata    *)
(* snapshot, its mutation operations, and the shared_token_metadata       *)
(* publisher (mutate_token_metadata / mutate_on_all_shards).              *)
(***************************************************************************)
EXTENDS Integers, Sequences, FiniteSets, TLC

\* ---------------------------------------------------------------- bounds
MaxToken == 2
NumEndpoints == 2
MaxVersion == 3
NumWorkers == 2
MaxCalls == 2
MaxOps == 2
MaxRingToken == 3
MaxRF == 2
MaxCounter == 5

Tokens == 1..MaxToken
Endpoints == 1..NumEndpoints
Workers == 0..(NumWorkers - 1)

VARIABLES
    tm,                   \* a token_metadata object driven through its public interface
    last,                 \* the last public operation applied to tm and its outcome
    static_ring_version,  \* thread_local _static_ring_version, one per worker
    heap,                 \* token_metadata objects reachable through pointers
    shared,               \* shared_token_metadata::_shared, one per worker
    sem,                  \* units available in each worker's lock semaphore
    waitq,                \* calls waiting for each worker's lock, in arrival order
    pc,                   \* position of each mutate call
    cb,                   \* local state of each mutate call
    pending,              \* pending_token_metadata_ptr of mutate_on_all_shards
    reader,               \* snapshot pointer a reader captured from some worker
    crashed,              \* on_internal_error raised inside the noexcept set()
    ncalls,               \* number of mutate calls started so far
    hist,                 \* outcome of the last call step that ended in set() or in a failure
    read                  \* the last read of tm (a const member function) and what it returned

tmvars == <<tm, last, read>>
pubvars == <<heap, shared, sem, waitq, pc, cb, pending, reader, crashed, ncalls, hist>>
vars == <<tm, last, static_ring_version, heap, shared, sem, waitq, pc, cb, pending,
          reader, crashed, ncalls, hist, read>>

\* ------------------------------------------------------ container helpers
Range(f) == {f[k] : k \in DOMAIN f}

Restrict(f, S) == [k \in S |-> f[k]]

EmptyMap == [k \in {} |-> 0]

Min(S) == CHOOSE x \in S : \A y \in S : x <= y

RECURSIVE SortSet(_)
SortSet(S) == IF S = {} THEN <<>> ELSE <<Min(S)>> \o SortSet(S \ {Min(S)})

remove_by_value(container, value) ==
    Restrict(container, {k \in DOMAIN container : container[k] # value})

\* ----------------------------------------------------------- the snapshot
EmptyTM ==
    [token_to_endpoint_map |-> EmptyMap,
     normal_token_owners |-> {},
     bootstrap_tokens |-> EmptyMap,
     leaving_endpoints |-> {},
     replacing_endpoints |-> EmptyMap,
     pending_ranges_interval_map |-> EmptyMap,
     sorted_tokens |-> <<>>,
     topology |-> {},
     ring_version |-> 0]

\* Result of an operation: the object, the worker's counter, and whether it threw.
Ok(t, v) == [tm |-> t, srv |-> v, err |-> FALSE]
Thrown(t, v) == [tm |-> t, srv |-> v, err |-> TRUE]

\* topology (locator/topology.hh)
has_endpoint(topo, ep) == ep \in topo

add_or_update_endpoint(topo, ep) == topo \cup {ep}

topology_remove_endpoint(topo, ep) == topo \ {ep}

update_topology(t, v, ep) ==
    Ok([t EXCEPT !.topology = add_or_update_endpoint(@, ep)], v)

invalidate_cached_rings(t, v) ==
    Ok([t EXCEPT !.ring_version = v + 1], v + 1)

sort_tokens(t) ==
    [t EXCEPT !.sorted_tokens = SortSet(DOMAIN t.token_to_endpoint_map)]

\* Owners maintained incrementally: endpoints are added, never dropped.
update_normal_token_owners_incremental(t) ==
    [t EXCEPT !.normal_token_owners = @ \cup Range(t.token_to_endpoint_map)]

update_normal_token_owners(t) ==
    [t EXCEPT !.normal_token_owners = Range(t.token_to_endpoint_map)]

\* update_normal_tokens, phase 1: erase the tokens the endpoint no longer owns
\* and drop from `tokens' those whose ownership does not change.
\* Phase 1 with the test inverted: erases the endpoint's tokens that are in `tokens'.
unt_phase1_map_inverted(t, tokens, endpoint) ==
    Restrict(t.token_to_endpoint_map,
             {k \in DOMAIN t.token_to_endpoint_map :
                 ~(t.token_to_endpoint_map[k] = endpoint /\ k \in tokens)})

\* Phase 1 that erases nothing.
unt_phase1_map_keep_all(t, tokens, endpoint) == t.token_to_endpoint_map

unt_phase1_map(t, tokens, endpoint) ==
    Restrict(t.token_to_endpoint_map,
             {k \in DOMAIN t.token_to_endpoint_map :
                 ~(t.token_to_endpoint_map[k] = endpoint /\ k \notin tokens)})

unt_phase1_tokens(t, tokens, endpoint) ==
    tokens \ {k \in DOMAIN t.token_to_endpoint_map : t.token_to_endpoint_map[k] = endpoint}

unt_phase1(t, tokens, endpoint) ==
    [t EXCEPT !.token_to_endpoint_map = unt_phase1_map(t, tokens, endpoint)]

\* Phase 2 that leaves the endpoint in _leaving_endpoints.
unt_phase2_keeps_leaving(t, v, tokens, endpoint) ==
    LET t1 == [t EXCEPT !.bootstrap_tokens = remove_by_value(@, endpoint)]
        r2 == invalidate_cached_rings(t1, v)
        old == r2.tm.token_to_endpoint_map
        should_sort_tokens == (tokens \ DOMAIN old) # {}
        new == [k \in DOMAIN old \cup tokens |-> IF k \in tokens THEN endpoint ELSE old[k]]
        t3 == update_normal_token_owners([r2.tm EXCEPT !.token_to_endpoint_map = new])
    IN Ok(IF should_sort_tokens THEN sort_tokens(t3) ELSE t3, r2.srv)

\* update_normal_tokens, phase 2 on the tokens left by phase 1.
unt_phase2(t, v, tokens, endpoint) ==
    LET t1 == [t EXCEPT !.bootstrap_tokens = remove_by_value(@, endpoint),
                        !.leaving_endpoints = @ \ {endpoint}]
        r2 == invalidate_cached_rings(t1, v)
        old == r2.tm.token_to_endpoint_map
        should_sort_tokens == (tokens \ DOMAIN old) # {}
        new == [k \in DOMAIN old \cup tokens |-> IF k \in tokens THEN endpoint ELSE old[k]]
        t3 == update_normal_token_owners([r2.tm EXCEPT !.token_to_endpoint_map = new])
    IN Ok(IF should_sort_tokens THEN sort_tokens(t3) ELSE t3, r2.srv)

\* update_normal_tokens without the topology membership check.
update_normal_tokens_unchecked(t, v, tokens, endpoint) ==
    IF tokens = {} THEN Ok(t, v)
    ELSE unt_phase2(unt_phase1(t, tokens, endpoint), v,
                    unt_phase1_tokens(t, tokens, endpoint), endpoint)

update_normal_tokens(t, v, tokens, endpoint) ==
    IF tokens = {} THEN Ok(t, v)
    ELSE IF ~has_endpoint(t.topology, endpoint) THEN Thrown(t, v)
    ELSE unt_phase2(unt_phase1(t, tokens, endpoint), v,
                    unt_phase1_tokens(t, tokens, endpoint), endpoint)

\* add_bootstrap_tokens that checks collisions with bootstrap tokens only.
add_bootstrap_tokens_no_normal_check(t, v, tokens, endpoint) ==
    IF \E tk \in tokens :
          tk \in DOMAIN t.bootstrap_tokens /\ t.bootstrap_tokens[tk] # endpoint
    THEN Thrown(t, v)
    ELSE LET erased == remove_by_value(t.bootstrap_tokens, endpoint)
         IN Ok([t EXCEPT !.bootstrap_tokens =
                    [k \in DOMAIN erased \cup tokens |->
                        IF k \in tokens THEN endpoint ELSE erased[k]]], v)

\* add_bootstrap_tokens that keeps the endpoint's prior bootstrap tokens.
add_bootstrap_tokens_keeps_prior(t, v, tokens, endpoint) ==
    IF \E tk \in tokens :
          \/ (tk \in DOMAIN t.bootstrap_tokens /\ t.bootstrap_tokens[tk] # endpoint)
          \/ (tk \in DOMAIN t.token_to_endpoint_map /\ t.token_to_endpoint_map[tk] # endpoint)
    THEN Thrown(t, v)
    ELSE Ok([t EXCEPT !.bootstrap_tokens =
                [k \in DOMAIN @ \cup tokens |->
                    IF k \in tokens THEN endpoint ELSE @[k]]], v)

add_bootstrap_tokens(t, v, tokens, endpoint) ==
    IF \E tk \in tokens :
          \/ (tk \in DOMAIN t.bootstrap_tokens /\ t.bootstrap_tokens[tk] # endpoint)
          \/ (tk \in DOMAIN t.token_to_endpoint_map /\ t.token_to_endpoint_map[tk] # endpoint)
    THEN Thrown(t, v)
    ELSE LET erased == remove_by_value(t.bootstrap_tokens, endpoint)
         IN Ok([t EXCEPT !.bootstrap_tokens =
                    [k \in DOMAIN erased \cup tokens |->
                        IF k \in tokens THEN endpoint ELSE erased[k]]], v)

remove_bootstrap_tokens(t, v, tokens) ==
    Ok([t EXCEPT !.bootstrap_tokens = Restrict(@, DOMAIN @ \ tokens)], v)

add_leaving_endpoint(t, v, endpoint) ==
    Ok([t EXCEPT !.leaving_endpoints = @ \cup {endpoint}], v)

del_leaving_endpoint(t, v, endpoint) ==
    Ok([t EXCEPT !.leaving_endpoints = @ \ {endpoint}], v)

add_replacing_endpoint(t, v, existing_node, replacing_node) ==
    Ok([t EXCEPT !.replacing_endpoints =
           [k \in DOMAIN @ \cup {existing_node} |->
               IF k = existing_node THEN replacing_node ELSE @[k]]], v)

del_replacing_endpoint(t, v, existing_node) ==
    Ok([t EXCEPT !.replacing_endpoints = Restrict(@, DOMAIN @ \ {existing_node})], v)

\* remove_endpoint that leaves the endpoint in _leaving_endpoints.
impl_remove_endpoint_keeps_leaving(t, v, endpoint) ==
    LET t1 == [t EXCEPT !.bootstrap_tokens = remove_by_value(@, endpoint),
                        !.token_to_endpoint_map = remove_by_value(@, endpoint),
                        !.normal_token_owners = @ \ {endpoint},
                        !.topology = topology_remove_endpoint(@, endpoint)]
    IN invalidate_cached_rings(del_replacing_endpoint(t1, v, endpoint).tm, v)

\* remove_endpoint that also drops the pairings in which the endpoint is the
\* replacement.
impl_remove_endpoint_drops_replacement(t, v, endpoint) ==
    LET t1 == [t EXCEPT !.bootstrap_tokens = remove_by_value(@, endpoint),
                        !.token_to_endpoint_map = remove_by_value(@, endpoint),
                        !.normal_token_owners = @ \ {endpoint},
                        !.topology = topology_remove_endpoint(@, endpoint),
                        !.leaving_endpoints = @ \ {endpoint},
                        !.replacing_endpoints = remove_by_value(@, endpoint)]
    IN invalidate_cached_rings(del_replacing_endpoint(t1, v, endpoint).tm, v)

\* remove_endpoint that leaves the endpoint's normal tokens in the map.
impl_remove_endpoint_keeps_tokens(t, v, endpoint) ==
    LET t1 == [t EXCEPT !.bootstrap_tokens = remove_by_value(@, endpoint),
                        !.normal_token_owners = @ \ {endpoint},
                        !.topology = topology_remove_endpoint(@, endpoint),
                        !.leaving_endpoints = @ \ {endpoint}]
    IN invalidate_cached_rings(del_replacing_endpoint(t1, v, endpoint).tm, v)

impl_remove_endpoint(t, v, endpoint) ==
    LET t1 == [t EXCEPT !.bootstrap_tokens = remove_by_value(@, endpoint),
                        !.token_to_endpoint_map = remove_by_value(@, endpoint),
                        !.normal_token_owners = @ \ {endpoint},
                        !.topology = topology_remove_endpoint(@, endpoint),
                        !.leaving_endpoints = @ \ {endpoint}]
    IN invalidate_cached_rings(del_replacing_endpoint(t1, v, endpoint).tm, v)

\* token_metadata::remove_endpoint: the impl operation followed by sort_tokens.
remove_endpoint(t, v, endpoint) ==
    LET r == impl_remove_endpoint(t, v, endpoint)
    IN Ok(sort_tokens(r.tm), r.srv)

\* ------------------------------------------- a token_metadata object in use
\* Tokens of `tokens' that update_normal_tokens takes over from another endpoint
\* ("Token {} changing ownership from {} to {}").
changing_ownership(t, tokens, ep) ==
    {k \in tokens \cap DOMAIN t.token_to_endpoint_map : t.token_to_endpoint_map[k] # ep}

\* The tokens mapped to an endpoint in a snapshot.
TokensOf(t, ep) ==
    {k \in DOMAIN t.token_to_endpoint_map : t.token_to_endpoint_map[k] = ep}

\* How far the calls have come in the sequence remove_endpoint(e);
\* update_topology(e); update_normal_tokens(T, e), where e owned the tokens T
\* in the snapshot `orig' the sequence started from (0: not in the sequence).
Stage(op, tokens, ep) ==
    IF op = "remove_endpoint" /\ TokensOf(tm, ep) # {}
    THEN [stage |-> 1, orig |-> tm]
    ELSE IF op = "update_topology" /\ last.stage = 1 /\ last.ep = ep
    THEN [stage |-> 2, orig |-> last.orig]
    ELSE IF /\ op = "update_normal_tokens" /\ last.stage = 2 /\ last.ep = ep
            /\ tokens = TokensOf(last.orig, ep)
    THEN [stage |-> 3, orig |-> last.orig]
    ELSE [stage |-> 0, orig |-> EmptyTM]

LastOp(op, tokens, ep, r) ==
    [op |-> op, tokens |-> tokens, ep |-> ep, err |-> r.err,
     moved |-> IF op = "update_normal_tokens" /\ ~r.err
               THEN changing_ownership(tm, tokens, ep) ELSE {},
     again |-> op = "update_normal_tokens" /\ last.op = op /\ ~last.err
               /\ last.tokens = tokens /\ last.ep = ep,
     stage |-> Stage(op, tokens, ep).stage,
     orig |-> Stage(op, tokens, ep).orig,
     order |-> <<>>]

Apply(op, tokens, ep, r) ==
    /\ r.srv <= MaxVersion
    /\ tm' = r.tm
    /\ static_ring_version' = [static_ring_version EXCEPT ![0] = r.srv]
    /\ last' = LastOp(op, tokens, ep, r)
    /\ UNCHANGED <<pubvars, read>>

TmUpdateTopology ==
    \E ep \in Endpoints :
        Apply("update_topology", {}, ep, update_topology(tm, static_ring_version[0], ep))

TmUpdateNormalTokens ==
    \E tokens \in SUBSET Tokens, ep \in Endpoints :
        Apply("update_normal_tokens", tokens, ep,
              update_normal_tokens(tm, static_ring_version[0], tokens, ep))

TmRemoveEndpoint ==
    \E ep \in Endpoints :
        Apply("remove_endpoint", {}, ep, remove_endpoint(tm, static_ring_version[0], ep))

TmAddBootstrapTokens ==
    \E tokens \in SUBSET Tokens, ep \in Endpoints :
        Apply("add_bootstrap_tokens", tokens, ep,
              add_bootstrap_tokens(tm, static_ring_version[0], tokens, ep))

TmRemoveBootstrapTokens ==
    \E tokens \in SUBSET Tokens :
        Apply("remove_bootstrap_tokens", tokens, 0,
              remove_bootstrap_tokens(tm, static_ring_version[0], tokens))

TmAddLeavingEndpoint ==
    \E ep \in Endpoints :
        Apply("add_leaving_endpoint", {}, ep,
              add_leaving_endpoint(tm, static_ring_version[0], ep))

TmDelLeavingEndpoint ==
    \E ep \in Endpoints :
        Apply("del_leaving_endpoint", {}, ep,
              del_leaving_endpoint(tm, static_ring_version[0], ep))

TmAddReplacingEndpoint ==
    \E existing_node \in Endpoints : \E replacing_node \in Endpoints \ {existing_node} :
        Apply("add_replacing_endpoint", {replacing_node}, existing_node,
              add_replacing_endpoint(tm, static_ring_version[0], existing_node, replacing_node))

TmDelReplacingEndpoint ==
    \E ep \in Endpoints :
        Apply("del_replacing_endpoint", {}, ep,
              del_replacing_endpoint(tm, static_ring_version[0], ep))

\* ------------------------------------------------------------- ring reads
\* No read has been made yet.
NoRead == [op |-> "none", arg |-> <<>>, ret |-> <<>>, err |-> FALSE, out |-> <<>>]

\* The token space: the ring tokens and a point below and above them.
RingTokens == 1..MaxRingToken
TokenSpace == 0..(MaxRingToken + 1)

\* dht::minimum_token() and dht::maximum_token() compare below and above every token.
minimum_token == -1
maximum_token == 100

\* Result of a const member function: the value returned, or an exception.
Ret(x) == [ret |-> x, err |-> FALSE]
Throws == [ret |-> <<>>, err |-> TRUE]

\* std::lower_bound on the sorted vector, as a 0-based index (Len: end()).
\* std::upper_bound in place of std::lower_bound.
lower_bound_strict(seq, x) ==
    Min({i \in 1..Len(seq) : seq[i] > x} \cup {Len(seq) + 1}) - 1

lower_bound(seq, x) ==
    Min({i \in 1..Len(seq) : seq[i] >= x} \cup {Len(seq) + 1}) - 1

first_token_index(t, start) ==
    IF t.sorted_tokens = <<>> THEN Throws
    ELSE LET it == lower_bound(t.sorted_tokens, start)
         IN IF it = Len(t.sorted_tokens) THEN Ret(0) ELSE Ret(it)

first_token(t, start) ==
    LET i == first_token_index(t, start)
    IN IF i.err THEN Throws ELSE Ret(t.sorted_tokens[i.ret + 1])

\* token_metadata::tokens_iterator: a position in the sorted vector and the
\* number of tokens still to yield; the end iterator has none remaining.
\* An iterator that stops at the end of the vector instead of going round.
tokens_iterator_to_end(t, start) ==
    LET i == first_token_index(t, start)
    IN IF i.err THEN Throws
       ELSE Ret([cur |-> i.ret, remaining |-> Len(t.sorted_tokens) - i.ret])

\* An iterator over an empty vector that is the end iterator.
tokens_iterator_empty_ok(t, start) ==
    IF t.sorted_tokens = <<>> THEN Ret([cur |-> 0, remaining |-> 0])
    ELSE Ret([cur |-> first_token_index(t, start).ret,
              remaining |-> Len(t.sorted_tokens)])

tokens_iterator(t, start) ==
    LET i == first_token_index(t, start)
    IN IF i.err THEN Throws
       ELSE Ret([cur |-> i.ret, remaining |-> Len(t.sorted_tokens)])

iterator_deref(t, it) == t.sorted_tokens[it.cur + 1]

iterator_increment(t, it) ==
    [cur |-> IF it.cur + 1 = Len(t.sorted_tokens) THEN 0 ELSE it.cur + 1,
     remaining |-> it.remaining - 1]

iterator_at_end(it) == it.remaining = 0

\* ring_range(const token&)
ring_range(t, start) == tokens_iterator(t, start)

\* An optional partition_range::bound: <<>> or <<[token, inclusive, has_key]>>.
NoBound == <<>>
RingBound(tok, inclusive, has_key) ==
    <<[token |-> tok, inclusive |-> inclusive, has_key |-> has_key]>>

\* ring_range(const std::optional<bound>&): skips the first token when the
\* bound excludes it.
ring_range_from(t, start) ==
    LET r == ring_range(t, IF start # NoBound THEN start[1].token ELSE minimum_token)
    IN IF r.err THEN Throws
       ELSE IF /\ ~iterator_at_end(r.ret)
               /\ start # NoBound
               /\ ~start[1].inclusive
               /\ ~start[1].has_key
               /\ start[1].token = iterator_deref(t, r.ret)
       THEN Ret(iterator_increment(t, r.ret))
       ELSE r

\* get_predecessor without the test that the token found is the one asked for.
get_predecessor_unchecked(t, tok) ==
    LET tokens == t.sorted_tokens
        it == lower_bound(tokens, tok)
    IN IF it = Len(tokens) THEN Throws
       ELSE IF it = 0 THEN Ret(tokens[Len(tokens)])
       ELSE Ret(tokens[it])

get_predecessor(t, tok) ==
    LET tokens == t.sorted_tokens
        it == lower_bound(tokens, tok)
    IN IF it = Len(tokens) \/ tokens[it + 1] # tok THEN Throws
       ELSE IF it = 0 THEN Ret(tokens[Len(tokens)])
       ELSE Ret(tokens[it])

\* A range<token>: each side is unbounded (<<>>) or a bound with a value and
\* an inclusive flag.
Unbounded == <<>>
Bnd(v, inclusive) == <<[value |-> v, inclusive |-> inclusive]>>
Rng(s, e) == [start |-> s, end |-> e]

\* wrapping_range::is_wrap_around and compat::unwrap_into (range.hh)
is_wrap_around(r) ==
    /\ r.start # Unbounded
    /\ r.end # Unbounded
    /\ \/ r.end[1].value < r.start[1].value
       \/ /\ r.end[1].value = r.start[1].value
          /\ (~r.start[1].inclusive \/ ~r.end[1].inclusive)

unwrap_into(r) ==
    IF is_wrap_around(r)
    THEN {Rng(Unbounded, r.end), Rng(r.start, Unbounded)}
    ELSE {r}

\* The token lies in the (non-wrapping) range.
range_contains(r, x) ==
    /\ \/ r.start = Unbounded
       \/ r.start[1].value < x
       \/ (r.start[1].inclusive /\ r.start[1].value = x)
    /\ \/ r.end = Unbounded
       \/ x < r.end[1].value
       \/ (r.end[1].inclusive /\ r.end[1].value = x)

\* Primary ranges with an inclusive left bound.
get_primary_ranges_for_closed(t, tokens) ==
    IF \E right \in tokens : get_predecessor(t, right).err THEN Throws
    ELSE Ret(UNION {unwrap_into(Rng(Bnd(get_predecessor(t, right).ret, TRUE),
                                    Bnd(right, TRUE))) : right \in tokens})

get_primary_ranges_for(t, tokens) ==
    IF \E right \in tokens : get_predecessor(t, right).err THEN Throws
    ELSE Ret(UNION {unwrap_into(Rng(Bnd(get_predecessor(t, right).ret, FALSE),
                                    Bnd(right, TRUE))) : right \in tokens})

\* boost::icl::interval<token>::interval_type: two end points and the bounds.
Interval(lo, hi, bounds) == [lower |-> lo, upper |-> hi, bounds |-> bounds]

range_to_interval(r) ==
    LET start == IF r.start # Unbounded THEN r.start[1].value ELSE minimum_token
        start_inclusive == IF r.start # Unbounded THEN r.start[1].inclusive ELSE FALSE
        end == IF r.end # Unbounded THEN r.end[1].value ELSE maximum_token
        end_inclusive == IF r.end # Unbounded THEN r.end[1].inclusive ELSE FALSE
    IN IF ~start_inclusive /\ ~end_inclusive THEN Interval(start, end, "open")
       ELSE IF ~start_inclusive /\ end_inclusive THEN Interval(start, end, "left_open")
       ELSE IF start_inclusive /\ ~end_inclusive THEN Interval(start, end, "right_open")
       ELSE Interval(start, end, "closed")

interval_to_range(i) ==
    LET start_inclusive == i.bounds \in {"right_open", "closed"}
        end_inclusive == i.bounds \in {"left_open", "closed"}
    IN Rng(Bnd(i.lower, start_inclusive), Bnd(i.upper, end_inclusive))

\* ------------------------------------------------------- pending ranges
get_endpoint(t, tok) ==
    IF tok \in DOMAIN t.token_to_endpoint_map
    THEN <<t.token_to_endpoint_map[tok]>> ELSE <<>>

\* Replication strategy (abstract_replication_strategy): the first rf distinct
\* endpoints met walking the ring from first_token(tok).
RECURSIVE natural_walk(_, _, _, _, _)
natural_walk(t, rf, it, remaining, acc) ==
    IF remaining = 0 \/ Cardinality(acc) >= rf THEN acc
    ELSE natural_walk(t, rf, IF it + 1 = Len(t.sorted_tokens) THEN 0 ELSE it + 1,
                      remaining - 1,
                      acc \cup Range(get_endpoint(t, t.sorted_tokens[it + 1])))

calculate_natural_endpoints(rf, tok, t) ==
    IF t.sorted_tokens = <<>> THEN {}
    ELSE natural_walk(t, rf, first_token_index(t, tok).ret, Len(t.sorted_tokens), {})

\* The ranges (previous token, token] of the tokens the endpoint replicates.
get_ranges(rf, ep, t) ==
    LET toks == t.sorted_tokens
        prev(i) == IF i = 1 THEN toks[Len(toks)] ELSE toks[i - 1]
    IN UNION {unwrap_into(Rng(Bnd(prev(i), FALSE), Bnd(toks[i], TRUE))) :
                i \in {j \in 1..Len(toks) :
                          ep \in calculate_natural_endpoints(rf, toks[j], t)}}

clone_only_token_map(t, clone_sorted_tokens) ==
    [EmptyTM EXCEPT !.token_to_endpoint_map = t.token_to_endpoint_map,
                    !.normal_token_owners = t.normal_token_owners,
                    !.topology = t.topology,
                    !.sorted_tokens = IF clone_sorted_tokens THEN t.sorted_tokens ELSE <<>>]

\* Applies impl_remove_endpoint for each endpoint of the set.
RECURSIVE remove_each(_, _, _)
remove_each(t, v, eps) ==
    IF eps = {} THEN Ok(t, v)
    ELSE LET e == Min(eps)
             r == impl_remove_endpoint(t, v, e)
         IN remove_each(r.tm, r.srv, eps \ {e})

\* The final sort_tokens is left out.
clone_after_all_left_unsorted(t, v) ==
    LET r == remove_each(clone_only_token_map(t, FALSE), v, t.leaving_endpoints)
    IN Ok(r.tm, r.srv)

clone_after_all_left(t, v) ==
    LET r == remove_each(clone_only_token_map(t, FALSE), v, t.leaving_endpoints)
    IN Ok(sort_tokens(r.tm), r.srv)

\* Pending ranges are collected as pairs <<range, endpoint>>.
calculate_pending_ranges_for_replacing(t, rf) ==
    UNION {{<<x, t.replacing_endpoints[existing_node]>> : x \in get_ranges(rf, existing_node, t)} :
              existing_node \in DOMAIN t.replacing_endpoints}

\* The endpoints that already replicate the range are not taken out.
calculate_pending_ranges_for_leaving_no_diff(t, rf, all_left_metadata) ==
    LET affected_ranges == UNION {get_ranges(rf, e, t) : e \in t.leaving_endpoints}
        end_of(r) == IF r.end # Unbounded THEN r.end[1].value ELSE maximum_token
    IN UNION {{<<r, ep>> :
                 ep \in calculate_natural_endpoints(rf, end_of(r), all_left_metadata)} :
              r \in affected_ranges}

calculate_pending_ranges_for_leaving(t, rf, all_left_metadata) ==
    LET affected_ranges == UNION {get_ranges(rf, e, t) : e \in t.leaving_endpoints}
        metadata == clone_only_token_map(t, TRUE)
        end_of(r) == IF r.end # Unbounded THEN r.end[1].value ELSE maximum_token
    IN UNION {{<<r, ep>> :
                 ep \in calculate_natural_endpoints(rf, end_of(r), all_left_metadata)
                          \ calculate_natural_endpoints(rf, end_of(r), metadata)} :
              r \in affected_ranges}

\* Each bootstrapping endpoint in turn is added to all_left_metadata with its
\* tokens, its ranges are taken, and it is removed again. The turn is that of
\* the iteration of a std::unordered_map, given here as the sequence `order'.
RECURSIVE bootstrap_each(_, _, _, _, _, _)
bootstrap_each(t, rf, all_left, v, order, acc) ==
    IF order = <<>> THEN [tm |-> sort_tokens(all_left), srv |-> v, ranges |-> acc]
    ELSE LET endpoint == Head(order)
             tokens == {k \in DOMAIN t.bootstrap_tokens : t.bootstrap_tokens[k] = endpoint}
             r1 == update_topology(all_left, v, endpoint)
             r2 == update_normal_tokens(r1.tm, r1.srv, tokens, endpoint)
             address_ranges == get_ranges(rf, endpoint, r2.tm)
             r3 == impl_remove_endpoint(r2.tm, r2.srv, endpoint)
         IN bootstrap_each(t, rf, r3.tm, r3.srv, Tail(order),
                           acc \cup {<<x, endpoint>> : x \in address_ranges})

calculate_pending_ranges_for_bootstrap(t, rf, all_left_metadata, v, order) ==
    bootstrap_each(t, rf, all_left_metadata, v, order, {})

\* The turns the iteration over the bootstrapping endpoints can take.
Orders(t) ==
    LET eps == Range(t.bootstrap_tokens)
        n == Cardinality(eps)
    IN {o \in [1..n -> eps] : \A a, b \in 1..n : o[a] = o[b] => a = b}

\* boost::icl: an interval holds no token / holds the token.
interval_is_empty(i) ==
    i.lower > i.upper \/ (i.lower = i.upper /\ i.bounds # "closed")

interval_contains(i, x) ==
    /\ i.lower < x \/ (i.lower = x /\ i.bounds \in {"right_open", "closed"})
    /\ x < i.upper \/ (i.upper = x /\ i.bounds \in {"left_open", "closed"})

\* The interval map of a keyspace is kept as the set of <<interval, endpoints>>
\* added to it; a lookup unites the endpoints of the intervals that overlap.
make_interval_map(pairs) ==
    {e \in {<<range_to_interval(r), {p[2] : p \in {q \in pairs : q[1] = r}}>> :
               r \in {p[1] : p \in pairs}} :
        ~interval_is_empty(e[1])}

\* The intervals are added to the keyspace's existing map.
set_pending_ranges_keeps_prior(t, v, keyspace_name, new_pending_ranges) ==
    IF new_pending_ranges = {}
    THEN Ok([t EXCEPT !.pending_ranges_interval_map =
                Restrict(@, DOMAIN @ \ {keyspace_name})], v)
    ELSE IF \E x \in new_pending_ranges : ~has_endpoint(t.topology, x[2])
    THEN Thrown(t, v)
    ELSE Ok([t EXCEPT !.pending_ranges_interval_map =
                [k \in DOMAIN @ \cup {keyspace_name} |->
                    IF k = keyspace_name
                    THEN make_interval_map(new_pending_ranges)
                            \cup (IF k \in DOMAIN @ THEN @[k] ELSE {})
                    ELSE @[k]]], v)

set_pending_ranges(t, v, keyspace_name, new_pending_ranges) ==
    IF new_pending_ranges = {}
    THEN Ok([t EXCEPT !.pending_ranges_interval_map =
                Restrict(@, DOMAIN @ \ {keyspace_name})], v)
    ELSE IF \E x \in new_pending_ranges : ~has_endpoint(t.topology, x[2])
    THEN Thrown(t, v)
    ELSE Ok([t EXCEPT !.pending_ranges_interval_map =
                [k \in DOMAIN @ \cup {keyspace_name} |->
                    IF k = keyspace_name THEN make_interval_map(new_pending_ranges)
                    ELSE @[k]]], v)

\* Without the fast path: with no transition in flight nothing is installed.
update_pending_ranges_no_fast_path(t, v, rf, keyspace_name, order) ==
    IF /\ t.bootstrap_tokens = EmptyMap
       /\ t.leaving_endpoints = {}
       /\ t.replacing_endpoints = EmptyMap
    THEN Ok(t, v)
    ELSE LET replacing == calculate_pending_ranges_for_replacing(t, rf)
             all_left_metadata == clone_after_all_left(t, v)
             leaving == calculate_pending_ranges_for_leaving(t, rf, all_left_metadata.tm)
             bootstrap == calculate_pending_ranges_for_bootstrap(
                              t, rf, all_left_metadata.tm, all_left_metadata.srv, order)
         IN set_pending_ranges(t, bootstrap.srv, keyspace_name,
                               replacing \cup leaving \cup bootstrap.ranges)

update_pending_ranges(t, v, rf, keyspace_name, order) ==
    IF /\ t.bootstrap_tokens = EmptyMap
       /\ t.leaving_endpoints = {}
       /\ t.replacing_endpoints = EmptyMap
    THEN set_pending_ranges(t, v, keyspace_name, {})
    ELSE LET replacing == calculate_pending_ranges_for_replacing(t, rf)
             all_left_metadata == clone_after_all_left(t, v)
             leaving == calculate_pending_ranges_for_leaving(t, rf, all_left_metadata.tm)
             bootstrap == calculate_pending_ranges_for_bootstrap(
                              t, rf, all_left_metadata.tm, all_left_metadata.srv, order)
         IN set_pending_ranges(t, bootstrap.srv, keyspace_name,
                               replacing \cup leaving \cup bootstrap.ranges)

pending_endpoints_for(t, tok, keyspace_name) ==
    IF keyspace_name \notin DOMAIN t.pending_ranges_interval_map THEN {}
    ELSE LET ks_map == t.pending_ranges_interval_map[keyspace_name]
             interval == range_to_interval(Rng(Bnd(tok, TRUE), Bnd(tok, TRUE)))
         IN IF ks_map = {} THEN {}
            ELSE UNION {e[2] : e \in {f \in ks_map : interval_contains(f[1], interval.lower)}}

has_pending_ranges(t, keyspace_name, endpoint) ==
    /\ keyspace_name \in DOMAIN t.pending_ranges_interval_map
    /\ \E item \in t.pending_ranges_interval_map[keyspace_name] : endpoint \in item[2]

\* A const member function is called on tm and returns or throws.
Read(op, arg, r) ==
    /\ read' = [op |-> op, arg |-> arg, ret |-> r.ret, err |-> r.err, out |-> <<>>]
    /\ UNCHANGED <<tm, last, static_ring_version, pubvars>>

RingBounds ==
    {NoBound} \cup {RingBound(tok, i, k) : tok \in TokenSpace, i \in BOOLEAN, k \in BOOLEAN}

TokenRanges ==
    LET sides == {Unbounded} \cup {Bnd(v, i) : v \in TokenSpace, i \in BOOLEAN}
    IN {Rng(st, en) : st \in sides, en \in sides}

RdFirstTokenIndex ==
    \E start \in TokenSpace :
        Read("first_token_index", start, first_token_index(tm, start))

RdFirstToken ==
    \E start \in TokenSpace : Read("first_token", start, first_token(tm, start))

RdRingRange ==
    \E start \in TokenSpace : Read("ring_range", start, ring_range(tm, start))

RdRingRangeFrom ==
    \E start \in RingBounds : Read("ring_range_from", start, ring_range_from(tm, start))

\* The caller of ring_range takes the next token: *it, then ++it.
RdIterate ==
    /\ read.op \in {"ring_range", "ring_range_from"}
    /\ ~read.err
    /\ ~iterator_at_end(read.ret)
    /\ read' = [read EXCEPT !.out = Append(@, iterator_deref(tm, read.ret)),
                            !.ret = iterator_increment(tm, read.ret)]
    /\ UNCHANGED <<tm, last, static_ring_version, pubvars>>

RdGetPredecessor ==
    \E tok \in TokenSpace : Read("get_predecessor", tok, get_predecessor(tm, tok))

RdGetPrimaryRangesFor ==
    \E tokens \in SUBSET RingTokens :
        Read("get_primary_ranges_for", tokens, get_primary_ranges_for(tm, tokens))

RdIntervalRoundTrip ==
    \E r \in TokenRanges :
        Read("interval_to_range", r, Ret(interval_to_range(range_to_interval(r))))

\* ------------------------------------------- pending ranges: operations
Strategies == 1..MaxRF
Keyspace == "ks"

\* A public operation is applied to tm while pending ranges are maintained;
\* read then holds the last lookup made since that operation.
PrApply(op, tokens, ep, r) ==
    /\ r.srv <= MaxCounter
    /\ tm' = r.tm
    /\ static_ring_version' = [static_ring_version EXCEPT ![0] = r.srv]
    /\ last' = LastOp(op, tokens, ep, r)
    /\ read' = NoRead
    /\ UNCHANGED pubvars

PrUpdatePendingRanges ==
    \E rf \in Strategies, order \in Orders(tm) :
        LET r == update_pending_ranges(tm, static_ring_version[0], rf, Keyspace, order)
        IN /\ r.srv <= MaxCounter
           /\ tm' = r.tm
           /\ static_ring_version' = [static_ring_version EXCEPT ![0] = r.srv]
           /\ last' = [LastOp("update_pending_ranges", {}, rf, r) EXCEPT !.order = order]
           /\ read' = NoRead
           /\ UNCHANGED pubvars

\* The transitions in flight are completed or withdrawn.
PrUpdateNormalTokens ==
    \E ep \in Range(tm.bootstrap_tokens) :
        LET tokens == {k \in DOMAIN tm.bootstrap_tokens : tm.bootstrap_tokens[k] = ep}
        IN PrApply("update_normal_tokens", tokens, ep,
                   update_normal_tokens(tm, static_ring_version[0], tokens, ep))

PrRemoveEndpoint ==
    \E ep \in tm.leaving_endpoints \cup DOMAIN tm.replacing_endpoints
                \cup Range(tm.bootstrap_tokens) :
        PrApply("remove_endpoint", {}, ep, remove_endpoint(tm, static_ring_version[0], ep))

PrRemoveBootstrapTokens ==
    /\ tm.bootstrap_tokens # EmptyMap
    /\ PrApply("remove_bootstrap_tokens", DOMAIN tm.bootstrap_tokens, 0,
               remove_bootstrap_tokens(tm, static_ring_version[0], DOMAIN tm.bootstrap_tokens))

PrDelLeavingEndpoint ==
    \E ep \in tm.leaving_endpoints :
        PrApply("del_leaving_endpoint", {}, ep,
                del_leaving_endpoint(tm, static_ring_version[0], ep))

PrDelReplacingEndpoint ==
    \E ep \in DOMAIN tm.replacing_endpoints :
        PrApply("del_replacing_endpoint", {}, ep,
                del_replacing_endpoint(tm, static_ring_version[0], ep))

\* clone_after_all_left is called on tm: the copy is returned, and the removals
\* made on the copy advance the worker's ring-version counter.
PrCloneAfterAllLeft ==
    LET r == clone_after_all_left(tm, static_ring_version[0])
    IN /\ r.srv <= MaxCounter
       /\ read' = [op |-> "clone_after_all_left", arg |-> <<>>, ret |-> r.tm,
                   err |-> FALSE, out |-> <<>>]
       /\ static_ring_version' = [static_ring_version EXCEPT ![0] = r.srv]
       /\ UNCHANGED <<tm, last, pubvars>>

\* Tokens looked up: the token space of the ring at hand, which for the
\* three-node ring is its tokens and the points between them.
QueryTokens(t) ==
    IF DOMAIN t.token_to_endpoint_map \cup DOMAIN t.bootstrap_tokens \subseteq Tokens
    THEN 0..(MaxToken + 1)
    ELSE {10, 15, 20, 25, 30}

RdPendingEndpointsFor ==
    \E tok \in QueryTokens(tm) :
        Read("pending_endpoints_for", tok, Ret(pending_endpoints_for(tm, tok, Keyspace)))

\* -------------------------------------------------- shared_token_metadata
\* Call 0 is the mutate_on_all_shards call (worker 0); calls 1..NumLocalCalls
\* are mutate_token_metadata calls, spread over the workers.
NumLocalCalls == NumWorkers + 1
LocalCalls == 1..NumLocalCalls
Calls == 0..NumLocalCalls
worker_of(c) == c % NumWorkers

None == 0
ObjIds == 1..(4 * NumWorkers)
NoObj == [free |-> TRUE]

NoCb == [obj |-> None, nops |-> 0, tokens |-> {}, ep |-> 0]

NewId(h) == Min({i \in ObjIds : h[i] = NoObj})

\* No copy is made: the "clone" is the source object itself.
clone_target_in_place(h, src) == src

\* The object that receives a clone of src: a new one.
clone_target(h, src) == NewId(h)

\* lw_shared_ptr: an object lives as long as some pointer refers to it.
Refs(sh, c, pnd, rd) ==
    (Range(sh) \cup {c[k].obj : k \in Calls} \cup Range(pnd) \cup {rd}) \ {None}

Release(h, sh, c, pnd, rd) ==
    [i \in ObjIds |-> IF i \in Refs(sh, c, pnd, rd) THEN h[i] ELSE NoObj]

NoPending == [w \in Workers |-> None]

PubInit ==
    /\ heap = [i \in ObjIds |-> IF i <= NumWorkers THEN EmptyTM ELSE NoObj]
    /\ shared = [w \in Workers |-> w + 1]
    /\ sem = [w \in Workers |-> 1]
    /\ waitq = [w \in Workers |-> <<>>]
    /\ pc = [c \in Calls |-> "idle"]
    /\ cb = [c \in Calls |-> NoCb]
    /\ pending = NoPending
    /\ reader = None
    /\ crashed = FALSE
    /\ ncalls = 0
    /\ hist = [kind |-> "init", call |-> 0, worker |-> 0]

Hist(kind, c, w) == [kind |-> kind, call |-> c, worker |-> w]

\* get_lock(): the call queues for the worker's semaphore.
GetLock(c) ==
    /\ ~crashed
    /\ pc[c] = "idle"
    /\ ncalls < MaxCalls
    /\ ncalls' = ncalls + 1
    /\ pc' = [pc EXCEPT ![c] = "waiting"]
    /\ waitq' = [waitq EXCEPT ![worker_of(c)] = Append(@, c)]
    /\ UNCHANGED hist
    /\ UNCHANGED <<tmvars, static_ring_version, heap, shared, sem, cb, pending,
                   reader, crashed>>

lock_available(c) ==
    /\ waitq[worker_of(c)] # <<>>
    /\ Head(waitq[worker_of(c)]) = c
    /\ sem[worker_of(c)] = 1

clone_async(t) ==
    [token_to_endpoint_map |-> t.token_to_endpoint_map,
     normal_token_owners |-> t.normal_token_owners,
     topology |-> t.topology,
     sorted_tokens |-> t.sorted_tokens,
     bootstrap_tokens |-> t.bootstrap_tokens,
     leaving_endpoints |-> t.leaving_endpoints,
     replacing_endpoints |-> t.replacing_endpoints,
     pending_ranges_interval_map |-> t.pending_ranges_interval_map,
     ring_version |-> t.ring_version]

\* The call clones without taking the lock.
Clone_without_lock(c) ==
    /\ ~crashed
    /\ pc[c] = "waiting"
    /\ LET w == worker_of(c)
           id == clone_target(heap, shared[w])
           r == invalidate_cached_rings(clone_async(heap[shared[w]]), static_ring_version[w])
       IN /\ waitq' = [waitq EXCEPT ![w] = SelectSeq(@, LAMBDA x : x # c)]
          /\ heap' = [heap EXCEPT ![id] = r.tm]
          /\ static_ring_version' = [static_ring_version EXCEPT ![w] = r.srv]
          /\ cb' = [cb EXCEPT ![c] = [NoCb EXCEPT !.obj = id]]
          /\ pc' = [pc EXCEPT ![c] = "func"]
    /\ UNCHANGED <<tmvars, shared, sem, pending, reader, crashed, ncalls, hist>>

\* The lock is granted; the call clones the published snapshot of its worker
\* and bumps the clone's ring version.
Clone(c) ==
    /\ ~crashed
    /\ pc[c] = "waiting"
    /\ lock_available(c)
    /\ LET w == worker_of(c)
           id == clone_target(heap, shared[w])
           r == invalidate_cached_rings(clone_async(heap[shared[w]]), static_ring_version[w])
       IN /\ sem' = [sem EXCEPT ![w] = 0]
          /\ waitq' = [waitq EXCEPT ![w] = Tail(@)]
          /\ heap' = [heap EXCEPT ![id] = r.tm]
          /\ static_ring_version' = [static_ring_version EXCEPT ![w] = r.srv]
          /\ cb' = [cb EXCEPT ![c] = [NoCb EXCEPT !.obj = id]]
          /\ pc' = [pc EXCEPT ![c] = "func"]
          /\ UNCHANGED hist
    /\ UNCHANGED <<tmvars, shared, pending, reader, crashed, ncalls>>

\* The failure path keeps the lock.
Fail_lock_kept(c, kind) ==
    /\ cb' = [cb EXCEPT ![c] = NoCb]
    /\ pending' = IF c = 0 THEN NoPending ELSE pending
    /\ heap' = Release(heap, shared, cb', pending', reader)
    /\ pc' = [pc EXCEPT ![c] = "idle"]
    /\ hist' = Hist(kind, c, worker_of(c))
    /\ UNCHANGED <<tmvars, static_ring_version, shared, sem, waitq, reader, crashed, ncalls>>

\* The callback failed: the clone is dropped and the lock released.
Fail(c, kind) ==
    /\ cb' = [cb EXCEPT ![c] = NoCb]
    /\ pending' = IF c = 0 THEN NoPending ELSE pending
    /\ heap' = Release(heap, shared, cb', pending', reader)
    /\ sem' = [sem EXCEPT ![worker_of(c)] = 1]
    /\ pc' = [pc EXCEPT ![c] = "idle"]
    /\ hist' = Hist(kind, c, worker_of(c))
    /\ UNCHANGED <<tmvars, static_ring_version, shared, waitq, reader, crashed, ncalls>>

\* One operation of the callback applied to the clone.
FuncStep(c, r) ==
    IF r.err THEN Fail(c, "func_failed")
    ELSE /\ heap' = [heap EXCEPT ![cb[c].obj] = r.tm]
         /\ static_ring_version' = [static_ring_version EXCEPT ![worker_of(c)] = r.srv]
         /\ cb' = [cb EXCEPT ![c].nops = @ + 1]
         /\ UNCHANGED hist
         /\ UNCHANGED <<tmvars, shared, sem, waitq, pc, pending, reader, crashed, ncalls>>

InFunc(c) == ~crashed /\ pc[c] = "func" /\ cb[c].nops < MaxOps

FuncUpdateTopology(c) ==
    /\ InFunc(c)
    /\ \E ep \in Endpoints :
          FuncStep(c, update_topology(heap[cb[c].obj], static_ring_version[worker_of(c)], ep))

FuncRemoveEndpoint(c) ==
    /\ InFunc(c)
    /\ \E ep \in Endpoints :
          FuncStep(c, remove_endpoint(heap[cb[c].obj], static_ring_version[worker_of(c)], ep))

\* update_normal_tokens suspends (maybe_yield) between its two phases.
FuncUpdateNormalTokensBegin(c) ==
    /\ InFunc(c)
    /\ \E tokens \in SUBSET Tokens \ {{}}, ep \in Endpoints :
          LET t == heap[cb[c].obj]
          IN IF ~has_endpoint(t.topology, ep)
             THEN Fail(c, "func_failed")
             ELSE /\ heap' = [heap EXCEPT ![cb[c].obj] = unt_phase1(t, tokens, ep)]
                  /\ cb' = [cb EXCEPT ![c].tokens = unt_phase1_tokens(t, tokens, ep),
                                      ![c].ep = ep]
                  /\ pc' = [pc EXCEPT ![c] = "unt"]
                  /\ UNCHANGED hist
                  /\ UNCHANGED <<tmvars, static_ring_version, shared, sem, waitq,
                                 pending, reader, crashed, ncalls>>

FuncUpdateNormalTokensEnd(c) ==
    /\ ~crashed
    /\ pc[c] = "unt"
    /\ LET r == unt_phase2(heap[cb[c].obj], static_ring_version[worker_of(c)],
                           cb[c].tokens, cb[c].ep)
       IN /\ heap' = [heap EXCEPT ![cb[c].obj] = r.tm]
          /\ static_ring_version' = [static_ring_version EXCEPT ![worker_of(c)] = r.srv]
          /\ cb' = [cb EXCEPT ![c].nops = @ + 1, ![c].tokens = {}, ![c].ep = 0]
          /\ pc' = [pc EXCEPT ![c] = "func"]
          /\ UNCHANGED hist
    /\ UNCHANGED <<tmvars, shared, sem, waitq, pending, reader, crashed, ncalls>>

\* The callback itself throws or is cancelled.
FuncThrow(c) ==
    /\ ~crashed
    /\ pc[c] \in {"func", "unt"}
    /\ Fail(c, "func_failed")

\* No version check at all.
set_allowed_unchecked(cur, new) == TRUE

\* The check lets an equal version through.
set_allowed_equal(cur, new) == ~(cur.ring_version > new.ring_version)

\* shared_token_metadata::set: the version check.
set_allowed(cur, new) == ~(cur.ring_version >= new.ring_version)

\* set() on worker w with the object id: installs it, or raises the internal
\* error inside a noexcept function.
Set(w, id, kind, c) ==
    IF set_allowed(heap[shared[w]], heap[id])
    THEN /\ shared' = [shared EXCEPT ![w] = id]
         /\ hist' = Hist(kind, c, w)
         /\ UNCHANGED crashed
    ELSE /\ crashed' = TRUE
         /\ hist' = Hist("internal_error", c, w)
         /\ UNCHANGED shared

\* mutate_token_metadata: the callback returned; set() and release of the lock.
Commit(c) ==
    /\ ~crashed
    /\ c \in LocalCalls
    /\ pc[c] = "func"
    /\ Set(worker_of(c), cb[c].obj, "set", c)
    /\ IF crashed'
       THEN UNCHANGED <<heap, cb, pc, sem>>
       ELSE /\ cb' = [cb EXCEPT ![c] = NoCb]
            /\ heap' = Release(heap, shared', cb', pending, reader)
            /\ pc' = [pc EXCEPT ![c] = "idle"]
            /\ sem' = [sem EXCEPT ![worker_of(c)] = 1]
    /\ UNCHANGED <<tmvars, static_ring_version, waitq, pending, reader, ncalls>>

\* Installation does not wait for the other workers' clones.
all_cloned_base_only(pnd) == pnd[0] # None

\* Every worker has its pending pointer: the clones of invoke_on_others are done.
all_cloned(pnd) == \A x \in Workers : pnd[x] # None

\* mutate_on_all_shards: the callback returned on worker 0; the mutated object
\* becomes worker 0's pending pointer and the other workers start cloning it.
AllReturn ==
    /\ ~crashed
    /\ pc[0] = "func"
    /\ pending' = [pending EXCEPT ![0] = cb[0].obj]
    /\ pc' = [pc EXCEPT ![0] = IF all_cloned(pending') THEN "install" ELSE "cloning"]
    /\ UNCHANGED hist
    /\ UNCHANGED <<tmvars, static_ring_version, heap, shared, sem, waitq, cb,
                   reader, crashed, ncalls>>

\* smp::invoke_on_others: worker w clones the mutated object.
AllClone(w) ==
    /\ ~crashed
    /\ pc[0] = "cloning"
    /\ w # 0
    /\ pending[w] = None
    /\ LET id == clone_target(heap, cb[0].obj)
       IN /\ heap' = [heap EXCEPT ![id] = clone_async(heap[cb[0].obj])]
          /\ pending' = [pending EXCEPT ![w] = id]
          /\ pc' = [pc EXCEPT ![0] = IF all_cloned(pending') THEN "install" ELSE "cloning"]
          /\ UNCHANGED hist
    /\ UNCHANGED <<tmvars, static_ring_version, shared, sem, waitq, cb, reader,
                   crashed, ncalls>>

\* A per-worker clone fails: nothing is installed.
AllCloneFail ==
    /\ ~crashed
    /\ pc[0] = "cloning"
    /\ Fail(0, "clone_failed")

\* stm.invoke_on_all: worker w installs its pending pointer.
AllSet(w) ==
    /\ ~crashed
    /\ pc[0] = "install"
    /\ pending[w] # None
    /\ Set(w, pending[w], "set_all", 0)
    /\ IF crashed'
       THEN UNCHANGED <<heap, pending>>
       ELSE /\ pending' = [pending EXCEPT ![w] = None]
            /\ heap' = Release(heap, shared', cb, pending', reader)
    /\ UNCHANGED <<tmvars, static_ring_version, sem, waitq, pc, cb, reader, ncalls>>

\* Every worker has installed its pointer: the call returns and drops the lock.
AllDone ==
    /\ ~crashed
    /\ pc[0] = "install"
    /\ pending = NoPending
    /\ cb' = [cb EXCEPT ![0] = NoCb]
    /\ heap' = Release(heap, shared, cb', pending, reader)
    /\ sem' = [sem EXCEPT ![0] = 1]
    /\ pc' = [pc EXCEPT ![0] = "idle"]
    /\ hist' = Hist("all_done", 0, 0)
    /\ UNCHANGED <<tmvars, static_ring_version, shared, waitq, pending, reader,
                   crashed, ncalls>>

\* A reader captures the published pointer of its worker, and later drops it.
ReaderGet(w) ==
    /\ ~crashed
    /\ reader = None
    /\ reader' = shared[w]
    /\ UNCHANGED <<tmvars, static_ring_version, heap, shared, sem, waitq, pc, cb,
                   pending, crashed, ncalls, hist>>

ReaderRelease ==
    /\ ~crashed
    /\ reader # None
    /\ reader' = None
    /\ heap' = Release(heap, shared, cb, pending, reader')
    /\ UNCHANGED <<tmvars, static_ring_version, shared, sem, waitq, pc, cb,
                   pending, crashed, ncalls, hist>>

\* ---------------------------------------------------------- specifications
Init ==
    /\ tm = EmptyTM
    /\ last = [op |-> "init", tokens |-> {}, ep |-> 0, err |-> FALSE, moved |-> {}, again |-> FALSE,
               stage |-> 0, orig |-> EmptyTM, order |-> <<>>]
    /\ static_ring_version = [w \in Workers |-> 0]
    /\ read = NoRead
    /\ PubInit

Next ==
    \/ \E c \in Calls : GetLock(c)
    \/ \E c \in Calls : Clone(c)
    \/ \E c \in Calls : FuncUpdateTopology(c)
    \/ \E c \in Calls : FuncRemoveEndpoint(c)
    \/ \E c \in Calls : FuncUpdateNormalTokensBegin(c)
    \/ \E c \in Calls : FuncUpdateNormalTokensEnd(c)
    \/ \E c \in Calls : FuncThrow(c)
    \/ \E c \in Calls : Commit(c)
    \/ AllReturn
    \/ \E w \in Workers : AllClone(w)
    \/ AllCloneFail
    \/ \E w \in Workers : AllSet(w)
    \/ AllDone
    \/ \E w \in Workers : ReaderGet(w)
    \/ ReaderRelease

Spec == Init /\ [][Next]_vars

NextTM ==
    \/ TmUpdateTopology
    \/ TmUpdateNormalTokens
    \/ TmRemoveEndpoint
    \/ TmAddBootstrapTokens
    \/ TmRemoveBootstrapTokens
    \/ TmAddLeavingEndpoint
    \/ TmDelLeavingEndpoint
    \/ TmAddReplacingEndpoint
    \/ TmDelReplacingEndpoint

SpecTM == Init /\ [][NextTM]_vars

\* mutate_token_metadata calls and readers only.
NextLocal ==
    \/ \E c \in LocalCalls : GetLock(c)
    \/ \E c \in LocalCalls : Clone(c)
    \/ \E c \in LocalCalls : FuncUpdateTopology(c)
    \/ \E c \in LocalCalls : FuncRemoveEndpoint(c)
    \/ \E c \in LocalCalls : FuncUpdateNormalTokensBegin(c)
    \/ \E c \in LocalCalls : FuncUpdateNormalTokensEnd(c)
    \/ \E c \in LocalCalls : FuncThrow(c)
    \/ \E c \in LocalCalls : Commit(c)
    \/ \E w \in Workers : ReaderGet(w)
    \/ ReaderRelease

SpecLocal == Init /\ [][NextLocal]_vars

\* Reads of a ring: tm is a token_metadata on which one endpoint was given any
\* set of ring tokens (update_topology, then update_normal_tokens).
RingOf(S) == update_normal_tokens(update_topology(EmptyTM, 0, 1).tm, 0, S, 1)

InitRing ==
    /\ \E S \in SUBSET RingTokens :
          /\ tm = RingOf(S).tm
          /\ static_ring_version = [w \in Workers |-> IF w = 0 THEN RingOf(S).srv ELSE 0]
    /\ last = [op |-> "init", tokens |-> {}, ep |-> 0, err |-> FALSE, moved |-> {}, again |-> FALSE,
               stage |-> 0, orig |-> EmptyTM, order |-> <<>>]
    /\ read = NoRead
    /\ PubInit

NextRing ==
    \/ RdFirstTokenIndex
    \/ RdFirstToken
    \/ RdRingRange
    \/ RdRingRangeFrom
    \/ RdIterate
    \/ RdGetPredecessor
    \/ RdGetPrimaryRangesFor
    \/ RdIntervalRoundTrip

SpecRing == InitRing /\ [][NextRing]_vars

\* Snapshots with transitions in flight, at most one replacement among them.
\* Each is what update_topology for the
\* topology, update_normal_tokens per owner, then add_bootstrap_tokens,
\* add_leaving_endpoint and add_replacing_endpoint leave behind.
PartialMaps(D, R) == UNION {[S -> R] : S \in SUBSET D}

InFlight(m, b, lv, rp, topo) ==
    [EmptyTM EXCEPT !.token_to_endpoint_map = m,
                    !.normal_token_owners = Range(m),
                    !.sorted_tokens = SortSet(DOMAIN m),
                    !.bootstrap_tokens = b,
                    !.leaving_endpoints = lv,
                    !.replacing_endpoints = rp,
                    !.topology = topo,
                    !.ring_version = Cardinality(Range(m))]

\* The three-node ring A:10, B:20, C:30 with add_bootstrap_token(15, D).
ThreeNodeRing == (10 :> 1) @@ (20 :> 2) @@ (30 :> 3)
BootstrapD == InFlight(ThreeNodeRing, 15 :> 4, {}, EmptyMap, {1, 2, 3})
BootstrapDJoining == InFlight(ThreeNodeRing, 15 :> 4, {}, EmptyMap, {1, 2, 3, 4})

InFlightSnapshots ==
    UNION {{InFlight(m, b, lv, rp, topo) :
                b \in {x \in PartialMaps(Tokens, Endpoints) :
                          \A k \in DOMAIN x \cap DOMAIN m : m[k] = x[k]},
                lv \in SUBSET Endpoints,
                rp \in {x \in PartialMaps(Endpoints, Endpoints) :
                          Cardinality(DOMAIN x) <= 1 /\ \A k \in DOMAIN x : x[k] # k},
                topo \in {Range(m), Endpoints}} :
           m \in PartialMaps(Tokens, Endpoints)}
    \cup {BootstrapD, BootstrapDJoining}

\* Snapshots that already hold pending ranges of another keyspace, computed
\* by an earlier update_pending_ranges with a single replica.
OtherKeyspace == "other"
LeavingRing == InFlight((1 :> 1) @@ (2 :> 2), EmptyMap, {1}, EmptyMap, {1, 2})
JoiningRing == InFlight(1 :> 1, 2 :> 2, {}, EmptyMap, {1, 2})

WithOtherKeyspace ==
    UNION {{update_pending_ranges(t, t.ring_version, 1, OtherKeyspace, order) :
                order \in Orders(t)} : t \in {LeavingRing, JoiningRing}}

InitPR ==
    /\ \/ /\ tm \in InFlightSnapshots
          /\ static_ring_version = [w \in Workers |-> IF w = 0 THEN tm.ring_version ELSE 0]
       \/ \E r \in WithOtherKeyspace :
             /\ tm = r.tm
             /\ static_ring_version = [w \in Workers |-> IF w = 0 THEN r.srv ELSE 0]
    /\ last = [op |-> "init", tokens |-> {}, ep |-> 0, err |-> FALSE, moved |-> {}, again |-> FALSE,
               stage |-> 0, orig |-> EmptyTM, order |-> <<>>]
    /\ read = NoRead
    /\ PubInit

NextPR ==
    \/ PrUpdatePendingRanges
    \/ PrUpdateNormalTokens
    \/ PrRemoveEndpoint
    \/ PrRemoveBootstrapTokens
    \/ PrDelLeavingEndpoint
    \/ PrDelReplacingEndpoint
    \/ PrCloneAfterAllLeft
    \/ RdPendingEndpointsFor

SpecPR == InitPR /\ [][NextPR]_vars

\* The callback of a mutate_token_metadata call runs update_pending_ranges on
\* its clone.
FuncUpdatePendingRanges(c) ==
    /\ InFunc(c)
    /\ \E rf \in Strategies, order \in Orders(heap[cb[c].obj]) :
          FuncStep(c, update_pending_ranges(heap[cb[c].obj], static_ring_version[worker_of(c)],
                                            rf, Keyspace, order))

\* Every worker publishes a copy of one ring with a transition in flight (an
\* owner leaving, or an endpoint joining), and every worker's counter stands at
\* the snapshot's version.
InitPending ==
    /\ tm = EmptyTM
    /\ last = [op |-> "init", tokens |-> {}, ep |-> 0, err |-> FALSE, moved |-> {}, again |-> FALSE,
               stage |-> 0, orig |-> EmptyTM, order |-> <<>>]
    /\ read = NoRead
    /\ \E s \in {LeavingRing, JoiningRing} :
          /\ heap = [i \in ObjIds |-> IF i <= NumWorkers THEN s ELSE NoObj]
          /\ static_ring_version = [w \in Workers |-> s.ring_version]
    /\ shared = [w \in Workers |-> w + 1]
    /\ sem = [w \in Workers |-> 1]
    /\ waitq = [w \in Workers |-> <<>>]
    /\ pc = [c \in Calls |-> "idle"]
    /\ cb = [c \in Calls |-> NoCb]
    /\ pending = NoPending
    /\ reader = None
    /\ crashed = FALSE
    /\ ncalls = 0
    /\ hist = [kind |-> "init", call |-> 0, worker |-> 0]

\* mutate_token_metadata calls whose callbacks run remove_endpoint and
\* update_pending_ranges.
NextPending ==
    \/ \E c \in LocalCalls : GetLock(c)
    \/ \E c \in LocalCalls : Clone(c)
    \/ \E c \in LocalCalls : FuncRemoveEndpoint(c)
    \/ \E c \in LocalCalls : FuncUpdatePendingRanges(c)
    \/ \E c \in LocalCalls : FuncThrow(c)
    \/ \E c \in LocalCalls : Commit(c)

SpecPending == InitPending /\ [][NextPending]_vars

\* The reactor runs every ready continuation: a call at the head of the queue
\* of a free lock is granted it, a callback that was started returns or throws,
\* and the clones and installations of mutate_on_all_shards are carried out.
Fairness ==
    /\ \A c \in Calls : WF_vars(Clone(c))
    /\ \A c \in Calls : WF_vars(FuncUpdateNormalTokensEnd(c))
    /\ \A c \in LocalCalls : WF_vars(Commit(c) \/ FuncThrow(c))
    /\ WF_vars(AllReturn \/ FuncThrow(0))
    /\ WF_vars((\E w \in Workers : AllClone(w)) \/ AllCloneFail)
    /\ WF_vars(\E w \in Workers : AllSet(w))
    /\ WF_vars(AllDone)

\* mutate_token_metadata and mutate_on_all_shards calls whose callbacks only
\* update the topology or throw.
NextShards ==
    \/ \E c \in Calls : GetLock(c)
    \/ \E c \in Calls : Clone(c)
    \/ \E c \in Calls : FuncUpdateTopology(c)
    \/ \E c \in Calls : FuncThrow(c)
    \/ \E c \in Calls : Commit(c)
    \/ AllReturn
    \/ \E w \in Workers : AllClone(w)
    \/ AllCloneFail
    \/ \E w \in Workers : AllSet(w)
    \/ AllDone

\* The state after construction, or after one mutate_on_all_shards with an
\* empty callback has completed: every worker publishes version 1, assigned by
\* worker 0's counter.
InitShards ==
    /\ tm = EmptyTM
    /\ last = [op |-> "init", tokens |-> {}, ep |-> 0, err |-> FALSE, moved |-> {}, again |-> FALSE,
               stage |-> 0, orig |-> EmptyTM, order |-> <<>>]
    /\ read = NoRead
    /\ \E v \in {0, 1} :
          /\ heap = [i \in ObjIds |-> IF i <= NumWorkers
                                      THEN [EmptyTM EXCEPT !.ring_version = v]
                                      ELSE NoObj]
          /\ static_ring_version = [w \in Workers |-> IF w = 0 THEN v ELSE 0]
    /\ shared = [w \in Workers |-> w + 1]
    /\ sem = [w \in Workers |-> 1]
    /\ waitq = [w \in Workers |-> <<>>]
    /\ pc = [c \in Calls |-> "idle"]
    /\ cb = [c \in Calls |-> NoCb]
    /\ pending = NoPending
    /\ reader = None
    /\ crashed = FALSE
    /\ ncalls = 0
    /\ hist = [kind |-> "init", call |-> 0, worker |-> 0]

FairSpecShards == InitShards /\ [][NextShards]_vars /\ Fairness

FairSpecLocal == SpecLocal /\ \A c \in LocalCalls : WF_vars(Clone(c)) /\ WF_vars(Commit(c) \/ FuncThrow(c))

\* ------------------------------------------------------------------ claims
Published == Range(shared)

InCallback(c) == pc[c] \in {"func", "unt"}

HoldsLock(c) == pc[c] \in {"func", "unt", "cloning", "install"}

\* C1: on every worker, each snapshot installed as the published snapshot has a
\* ring version strictly greater than that of the snapshot it replaces.
C1_VersionStep ==
    \A w \in Workers :
        shared'[w] # shared[w] =>
            heap'[shared'[w]].ring_version > heap[shared[w]].ring_version

C1_PublishedVersionIncreases == [][C1_VersionStep]_vars

\* A worker other than 0 has had a snapshot installed by mutate_on_all_shards.
C1_Witness == hist.kind = "set_all" /\ hist.worker # 0

\* C2: when the callback of mutate_token_metadata fails, no published pointer
\* and no published object changes, the clone is dropped without having been
\* published, and the worker's lock is free again.
C2_FailureStep ==
    \A c \in LocalCalls :
        (InCallback(c) /\ pc'[c] = "idle" /\ hist' = Hist("func_failed", c, worker_of(c))) =>
            /\ shared' = shared
            /\ \A w \in Workers : heap'[shared[w]] = heap[shared[w]]
            /\ cb[c].obj \notin Published
            /\ heap'[cb[c].obj] = NoObj
            /\ sem'[worker_of(c)] = 1

C2_FailurePreservesPublished == [][C2_FailureStep]_vars

\* A callback failed on a worker whose published snapshot was committed earlier.
C2_Witness ==
    /\ hist.kind = "func_failed"
    /\ hist.call \in LocalCalls
    /\ heap[shared[hist.worker]].ring_version > 0
    /\ sem[hist.worker] = 1

\* C3: an object that is published or held by a reader is never modified, and
\* the object a callback writes to is neither published nor held by a reader.
C3_Visible == Published \cup ({reader} \ {None})

C3_ImmutableStep ==
    \A i \in ObjIds :
        (i \in C3_Visible /\ i \in C3_Visible') => heap'[i] = heap[i]

C3_CloneUnpublished ==
    \A c \in Calls : InCallback(c) => cb[c].obj \notin C3_Visible

C4_Mutex ==
    \A w \in Workers :
        Cardinality({c \in LocalCalls : worker_of(c) = w /\ HoldsLock(c)}) <= 1

C4_CloneStep ==
    \A c \in LocalCalls :
        (pc[c] = "waiting" /\ pc'[c] = "func") =>
            [heap'[cb'[c].obj] EXCEPT !.ring_version = heap[shared[worker_of(c)]].ring_version]
                = heap[shared[worker_of(c)]]

C4_PublishStep ==
    \A c \in LocalCalls :
        (HoldsLock(c) /\ shared'[worker_of(c)] # shared[worker_of(c)]) =>
            shared'[worker_of(c)] = cb[c].obj

C4_Serialized == []C4_Mutex /\ [][C4_CloneStep /\ C4_PublishStep]_vars

\* One call runs its callback while another call of the same worker waits.
C4_Witness ==
    \E c1 \in LocalCalls, c2 \in LocalCalls :
        /\ worker_of(c1) = worker_of(c2)
        /\ InCallback(c1)
        /\ pc[c2] = "waiting"

\* C5 (amended): mutate_on_all_shards installs on a worker only in its install
\* phase, which starts only when every worker's clone exists; a failure of the
\* callback or of a clone installs nothing.
C5_InstallStep ==
    \A w \in Workers :
        (pending[w] # None /\ shared'[w] = pending[w] /\ shared'[w] # shared[w]) =>
            pc[0] = "install"

C5_PhaseStep ==
    (pc[0] # "install" /\ pc'[0] = "install") => \A w \in Workers : pending'[w] # None

C5_FailStep ==
    (pc[0] \in {"func", "unt", "cloning"} /\ pc'[0] = "idle") =>
        /\ shared' = shared
        /\ \A w \in Workers : heap'[shared[w]] = heap[shared[w]]

C5_InstallAfterAllClones == [][C5_InstallStep /\ C5_PhaseStep /\ C5_FailStep]_vars

\* The installation is under way: some worker has the new snapshot, another not yet.
C5_Witness ==
    /\ pc[0] = "install"
    /\ \E w \in Workers : pending[w] = None
    /\ \E w \in Workers : pending[w] # None

\* C5 as stated: in addition, there is no state in which only some of the
\* workers have had the new snapshot installed.
C5_AllOrNothing ==
    pc[0] = "install" =>
        \/ \A w \in Workers : pending[w] # None
        \/ \A w \in Workers : pending[w] = None

C5_Original == C5_InstallAfterAllClones /\ []C5_AllOrNothing

\* C6: mutate_on_all_shards installs on every worker (its set never raises the
\* internal error) and when it returns every worker publishes a snapshot equal,
\* ring version included, to worker 0's.
C6_AllWorkersEqual ==
    /\ ~(hist.kind = "internal_error" /\ hist.call = 0)
    /\ hist.kind = "all_done" => \A w \in Workers : heap[shared[w]] = heap[shared[0]]

\* C7: set installs a snapshot only over one of strictly smaller version; a
\* refused set raises the internal error and leaves every published pointer
\* and object as they were.
C7_Attempted == IF hist'.call = 0 THEN pending[hist'.worker] ELSE cb[hist'.call].obj

C7_SetStep ==
    /\ \A w \in Workers :
          shared'[w] # shared[w] => heap[shared[w]].ring_version < heap[shared'[w]].ring_version
    /\ (crashed' /\ ~crashed) =>
          /\ hist'.kind = "internal_error"
          /\ heap[shared[hist'.worker]].ring_version >= heap[C7_Attempted].ring_version
          /\ shared' = shared
          /\ heap' = heap

C7_SetRefusesNonIncreasing == [][C7_SetStep]_vars

\* set was refused on some worker.
C7_Witness == crashed /\ hist.kind = "internal_error"

\* C8: sorted_tokens is the ascending, duplicate-free sort of the keys of
\* token_to_endpoint after every public operation.
C8_SortedTokensInSync ==
    tm.sorted_tokens = SortSet(DOMAIN tm.token_to_endpoint_map)

\* C9: normal_token_owners is exactly the set of endpoints that are a value of
\* token_to_endpoint.
C9_OwnersAreMapValues ==
    tm.normal_token_owners = Range(tm.token_to_endpoint_map)

\* update_normal_tokens moved tokens away from an endpoint that is left with none.
C9_Witness ==
    /\ last.op = "update_normal_tokens"
    /\ last.moved # {}
    /\ \E e \in tm.topology \ {last.ep} : e \notin Range(tm.token_to_endpoint_map)

\* C10: every endpoint referenced by token_to_endpoint, bootstrap_tokens,
\* leaving_endpoints or replacing_endpoints (key or value) is in the topology.
C10_Referenced ==
    Range(tm.token_to_endpoint_map) \cup Range(tm.bootstrap_tokens)
        \cup tm.leaving_endpoints
        \cup DOMAIN tm.replacing_endpoints \cup Range(tm.replacing_endpoints)

C10_ReferencedInTopology == C10_Referenced \subseteq tm.topology

\* C11: every endpoint that is the value of an entry of the token-to-endpoint
\* map is a member of the topology.
C11_MapValuesInTopology == Range(tm.token_to_endpoint_map) \subseteq tm.topology

\* An endpoint that owned tokens has been removed while another still owns some.
C11_Witness ==
    /\ last.op = "remove_endpoint"
    /\ last.ep \notin tm.topology
    /\ tm.token_to_endpoint_map # EmptyMap

\* C12: no token is a normal token of one endpoint and a bootstrap token of a
\* different endpoint.
C12_NoNormalBootstrapClash ==
    \A k \in DOMAIN tm.token_to_endpoint_map \cap DOMAIN tm.bootstrap_tokens :
        tm.token_to_endpoint_map[k] = tm.bootstrap_tokens[k]

\* The step is a successful update_normal_tokens call.
UntSucceeds == last'.op = "update_normal_tokens" /\ ~last'.err

\* What C13 promises of a successful update_normal_tokens(T, e) step.
C13_Effect ==
    LET T == last'.tokens
        e == last'.ep
        old == tm.token_to_endpoint_map
        new == tm'.token_to_endpoint_map
    IN /\ TokensOf(tm', e) = T
       /\ DOMAIN new \subseteq DOMAIN old \cup T
       /\ \A k \in DOMAIN old \ T :
            old[k] # e => (k \in DOMAIN new /\ new[k] = old[k])

\* C13 as stated: after every successful update_normal_tokens(T, e), for any
\* token set T, the tokens mapped to e are exactly T and every token outside T
\* that belongs to another endpoint keeps its owner.
C13_Original == [][UntSucceeds => C13_Effect]_vars

\* C13 (amended): the same for every non-empty T; a call with an empty T
\* leaves the snapshot as it was.
C13_ExactlyT ==
    [][UntSucceeds => IF last'.tokens # {} THEN C13_Effect ELSE tm' = tm]_vars

\* A token was transferred to the endpoint while another endpoint keeps one.
C13_Witness ==
    /\ last.op = "update_normal_tokens"
    /\ ~last.err
    /\ last.moved # {}
    /\ TokensOf(tm, last.ep) = last.tokens
    /\ \E k \in DOMAIN tm.token_to_endpoint_map : tm.token_to_endpoint_map[k] # last.ep

\* The step is an update_normal_tokens call for an endpoint outside the topology.
UntOutsideTopology ==
    last'.op = "update_normal_tokens" /\ ~has_endpoint(tm.topology, last'.ep)

\* The call failed and left the snapshot and the version counter untouched.
C14_Refused ==
    /\ last'.err
    /\ tm' = tm
    /\ static_ring_version' = static_ring_version

\* C14 as stated: update_normal_tokens(T, e), for any token set T, fails when
\* e is not in the topology and leaves the snapshot unchanged.
C14_Original == [][UntOutsideTopology => C14_Refused]_vars

\* C14 (amended): for every non-empty T the call fails when e is not in the
\* topology and leaves the snapshot unchanged; with an empty T it returns
\* without error and without any change, whether or not e is in the topology.
C14_FailsOutsideTopology ==
    [][/\ (UntOutsideTopology /\ last'.tokens # {}) => C14_Refused
       /\ (last'.op = "update_normal_tokens" /\ last'.tokens = {})
             => (~last'.err /\ tm' = tm /\ static_ring_version' = static_ring_version)]_vars

\* A call was refused on a snapshot that already holds tokens.
C14_Witness ==
    /\ last.op = "update_normal_tokens"
    /\ last.err
    /\ last.tokens # {}
    /\ last.ep \notin tm.topology
    /\ tm.token_to_endpoint_map # EmptyMap

\* What C15 promises of a successful update_normal_tokens(T, e) step.
C15_Effect ==
    LET e == last'.ep
    IN /\ e \notin Range(tm'.bootstrap_tokens)
       /\ e \notin tm'.leaving_endpoints
       /\ tm'.bootstrap_tokens = remove_by_value(tm.bootstrap_tokens, e)
       /\ tm'.leaving_endpoints = tm.leaving_endpoints \ {e}
       /\ tm'.replacing_endpoints = tm.replacing_endpoints

\* C15 as stated: after every successful update_normal_tokens(T, e), e has no
\* bootstrap token and is not leaving; the other endpoints' bootstrap tokens,
\* the other leaving endpoints and the replacing map are unchanged.
C15_Original == [][UntSucceeds => C15_Effect]_vars

\* C15 (amended): the same after every successful call with a non-empty T.
C15_TransitionsCleared == [][(UntSucceeds /\ last'.tokens # {}) => C15_Effect]_vars

\* After a successful call, entries of other endpoints remain in all three
\* transition sets.
C15_Witness ==
    /\ last.op = "update_normal_tokens"
    /\ ~last.err
    /\ last.tokens # {}
    /\ tm.bootstrap_tokens # EmptyMap
    /\ tm.leaving_endpoints # {}
    /\ tm.replacing_endpoints # EmptyMap

\* The operations C16 calls mutations of a snapshot.
MutationOps ==
    {"update_normal_tokens", "remove_endpoint", "add_bootstrap_tokens",
     "remove_bootstrap_tokens", "add_leaving_endpoint", "del_leaving_endpoint",
     "add_replacing_endpoint", "del_replacing_endpoint"}

\* C16: every successful mutation that changes the snapshot leaves its ring
\* version strictly greater than before the operation.
C16_MutationBumpsVersion ==
    [][(last'.op \in MutationOps /\ ~last'.err /\ tm' # tm)
          => tm'.ring_version > tm.ring_version]_vars

\* Two snapshots agree in every component but the ring version.
SameButVersion(a, b) == [a EXCEPT !.ring_version = 0] = [b EXCEPT !.ring_version = 0]

\* On the current snapshot, for every T and e, a second application right
\* after a successful first one changes nothing but the ring version.
C17_Twice ==
    \A T \in SUBSET Tokens, e \in Endpoints :
        LET r1 == update_normal_tokens(tm, static_ring_version[0], T, e)
            r2 == update_normal_tokens(r1.tm, r1.srv, T, e)
        IN ~r1.err => (~r2.err /\ SameButVersion(r2.tm, r1.tm))

\* C17: a successful update_normal_tokens(T, e) applied again right after
\* itself succeeds and leaves every component but the ring version as the
\* first application left it; this holds of the calls made and of every call
\* that could be made on a reachable snapshot.
C17_Idempotent ==
    /\ []C17_Twice
    /\ [][last'.again => (~last'.err /\ SameButVersion(tm', tm))]_vars

\* The second of two successive calls with the same non-empty T has run.
C17_Witness ==
    /\ last.again
    /\ ~last.err
    /\ last.tokens # {}
    /\ TokensOf(tm, last.ep) = last.tokens
    /\ tm.ring_version >= 2

\* The endpoint owns normal tokens in the snapshot.
OwnsTokens(t, e) == TokensOf(t, e) # {}

\* The endpoint has no bootstrap token, is not leaving and is not being replaced.
InNoTransition(t, e) ==
    /\ e \notin Range(t.bootstrap_tokens)
    /\ e \notin t.leaving_endpoints
    /\ e \notin DOMAIN t.replacing_endpoints

ReAdd(t, v, e) ==
    LET r1 == remove_endpoint(t, v, e)
        r2 == update_topology(r1.tm, r1.srv, e)
    IN update_normal_tokens(r2.tm, r2.srv, TokensOf(t, e), e)

Collides(t, T, e) ==
    \E tk \in T :
        \/ (tk \in DOMAIN t.bootstrap_tokens /\ t.bootstrap_tokens[tk] # e)
        \/ (tk \in DOMAIN t.token_to_endpoint_map /\ t.token_to_endpoint_map[tk] # e)

\* C19: add_bootstrap_tokens(T, e) fails when a token of T is a bootstrap or a
\* normal token of another endpoint, and a failed call leaves bootstrap_tokens
\* (and the rest of the snapshot) as it was.
C19_CollisionRefused ==
    [][last'.op = "add_bootstrap_tokens" =>
          /\ Collides(tm, last'.tokens, last'.ep) => last'.err
          /\ last'.err => tm' = tm]_vars

\* A call failed on a normal-token collision while the endpoint still has its
\* prior bootstrap tokens.
C19_Witness ==
    /\ last.op = "add_bootstrap_tokens"
    /\ last.err
    /\ last.ep \in Range(tm.bootstrap_tokens)
    /\ \E tk \in last.tokens \cap DOMAIN tm.token_to_endpoint_map :
          tm.token_to_endpoint_map[tk] # last.ep

\* The bootstrap tokens of an endpoint in a snapshot.
BootstrapTokensOf(t, e) ==
    {k \in DOMAIN t.bootstrap_tokens : t.bootstrap_tokens[k] = e}

\* C20: after a successful add_bootstrap_tokens(T, e) the bootstrap tokens of
\* e are exactly T and those of every other endpoint are unchanged.
C20_BootstrapExactlyT ==
    [][(last'.op = "add_bootstrap_tokens" /\ ~last'.err) =>
          /\ BootstrapTokensOf(tm', last'.ep) = last'.tokens
          /\ \A o \in Endpoints \ {last'.ep} :
                BootstrapTokensOf(tm', o) = BootstrapTokensOf(tm, o)
          /\ Range(tm'.bootstrap_tokens) \subseteq Range(tm.bootstrap_tokens) \cup {last'.ep}]_vars

\* A successful call with a non-empty T while another endpoint has bootstrap
\* tokens of its own.
C20_Witness ==
    /\ last.op = "add_bootstrap_tokens"
    /\ ~last.err
    /\ last.tokens # {}
    /\ BootstrapTokensOf(tm, last.ep) = last.tokens
    /\ \E o \in Endpoints \ {last.ep} : BootstrapTokensOf(tm, o) # {}

\* C21: after remove_endpoint(e), e is the value of no entry of the token map
\* or of bootstrap_tokens, is not an owner, not leaving, not in the topology
\* and not a key of the replacing map; the tokens and transition entries of
\* every other endpoint are as before and the ring version is greater.
C21_EndpointRemoved ==
    [][last'.op = "remove_endpoint" =>
          LET e == last'.ep
          IN /\ ~last'.err
             /\ e \notin Range(tm'.token_to_endpoint_map)
             /\ e \notin Range(tm'.bootstrap_tokens)
             /\ e \notin tm'.normal_token_owners
             /\ e \notin tm'.leaving_endpoints
             /\ e \notin tm'.topology
             /\ e \notin DOMAIN tm'.replacing_endpoints
             /\ tm'.token_to_endpoint_map = remove_by_value(tm.token_to_endpoint_map, e)
             /\ tm'.bootstrap_tokens = remove_by_value(tm.bootstrap_tokens, e)
             /\ tm'.normal_token_owners = tm.normal_token_owners \ {e}
             /\ tm'.leaving_endpoints = tm.leaving_endpoints \ {e}
             /\ tm'.topology = tm.topology \ {e}
             /\ tm'.replacing_endpoints =
                    Restrict(tm.replacing_endpoints, DOMAIN tm.replacing_endpoints \ {e})
             /\ tm'.ring_version > tm.ring_version]_vars

\* An endpoint was removed while another endpoint keeps tokens and entries
\* in the transition sets.
C21_Witness ==
    /\ last.op = "remove_endpoint"
    /\ tm.token_to_endpoint_map # EmptyMap
    /\ tm.leaving_endpoints # {}
    /\ tm.bootstrap_tokens # EmptyMap
    /\ tm.ring_version >= 2

\* The tokens of the sorted vector, and the vector's greatest element.
Ring == Range(tm.sorted_tokens)
Max(S) == CHOOSE x \in S : \A y \in S : y <= x

\* C25: on a non-empty ring first_token(start) returns the least token of
\* sorted_tokens that is >= start, and sorted_tokens[0] when there is none.
C25_FirstToken ==
    (read.op = "first_token" /\ tm.sorted_tokens # <<>>) =>
        LET ge == {k \in Ring : k >= read.arg}
        IN /\ ~read.err
           /\ read.ret = IF ge # {} THEN Min(ge) ELSE tm.sorted_tokens[1]

\* first_token wrapped round a ring of several tokens.
C25_Witness ==
    /\ read.op = "first_token"
    /\ Len(tm.sorted_tokens) >= 2
    /\ \A k \in Ring : k < read.arg
    /\ read.ret = tm.sorted_tokens[1]

\* The k-th token (k = 1, 2, ...) of the walk that starts at 0-based index i0.
Walk(i0, k) == tm.sorted_tokens[((i0 + k - 1) % Len(tm.sorted_tokens)) + 1]

\* The first token is skipped: the bound is exclusive, has no key and equals
\* the token the walk would start with.
Skips(b) ==
    /\ b # NoBound
    /\ ~b[1].inclusive
    /\ ~b[1].has_key
    /\ b[1].token = first_token(tm, b[1].token).ret

\* ring_range(start) on a non-empty ring: what has been yielded so far is the
\* walk from first_token(start), and with what remains it makes |sorted_tokens|.
C26_FromToken ==
    (read.op = "ring_range" /\ tm.sorted_tokens # <<>>) =>
        LET n == Len(tm.sorted_tokens)
            i0 == first_token_index(tm, read.arg).ret
        IN /\ ~read.err
           /\ read.ret.remaining \in 0..n
           /\ Len(read.out) + read.ret.remaining = n
           /\ \A k \in 1..Len(read.out) : read.out[k] = Walk(i0, k)
           /\ (read.out # <<>>) => read.out[1] = first_token(tm, read.arg).ret
           /\ iterator_at_end(read.ret) =>
                \A x \in Ring : Cardinality({k \in 1..n : read.out[k] = x}) = 1

\* ring_range(bound) on a non-empty ring: the same walk, from minimum_token
\* without a bound, and without its first token when the bound excludes it.
C26_FromBound ==
    (read.op = "ring_range_from" /\ tm.sorted_tokens # <<>>) =>
        LET n == Len(tm.sorted_tokens)
            b == read.arg
            i0 == first_token_index(tm, IF b = NoBound THEN minimum_token ELSE b[1].token).ret
            d == IF Skips(b) THEN 1 ELSE 0
        IN /\ ~read.err
           /\ read.ret.remaining \in 0..n
           /\ Len(read.out) + read.ret.remaining = n - d
           /\ \A k \in 1..Len(read.out) : read.out[k] = Walk(i0, k + d)

C27_Predecessor ==
    /\ [](read.op = "get_predecessor" =>
            IF read.arg \in Ring
            THEN /\ ~read.err
                 /\ read.ret = IF read.arg = Min(Ring) THEN Max(Ring)
                               ELSE Max({k \in Ring : k < read.arg})
            ELSE read.err)
    /\ [][read'.op = "get_predecessor" => tm' = tm]_vars

\* The predecessor of the least of several tokens is the greatest.
C27_Witness ==
    /\ read.op = "get_predecessor"
    /\ ~read.err
    /\ Len(tm.sorted_tokens) >= 2
    /\ read.arg = tm.sorted_tokens[1]
    /\ read.ret = tm.sorted_tokens[Len(tm.sorted_tokens)]

\* The tokens of the token space that lie in some range of the set.
Covered(ranges) == {x \in TokenSpace : \E r \in ranges : range_contains(r, x)}

\* The circular interval (left, right] of the token space.
Circular(left, right) ==
    IF left < right THEN {x \in TokenSpace : left < x /\ x <= right}
    ELSE {x \in TokenSpace : left < x \/ x <= right}

\* C28: get_primary_ranges_for({t}) covers exactly the tokens of
\* (predecessor(t), t], no token twice, and the ranges of all ring tokens
\* together cover every token of the token space exactly once.
C28_PrimaryRanges ==
    /\ (read.op = "get_primary_ranges_for" /\ Cardinality(read.arg) = 1
          /\ read.arg \subseteq Ring) =>
            LET t == CHOOSE x \in read.arg : TRUE
            IN /\ ~read.err
               /\ Covered(read.ret) = Circular(get_predecessor(tm, t).ret, t)
               /\ \A x \in TokenSpace :
                    Cardinality({r \in read.ret : range_contains(r, x)}) <= 1
    /\ (tm.sorted_tokens # <<>>) =>
          \A x \in TokenSpace :
              Cardinality({p \in Ring \X TokenRanges :
                            /\ p[2] \in get_primary_ranges_for(tm, {p[1]}).ret
                            /\ range_contains(p[2], x)}) = 1

\* The primary range of the least of several tokens, which wraps.
C28_Witness ==
    /\ read.op = "get_primary_ranges_for"
    /\ ~read.err
    /\ Len(tm.sorted_tokens) >= 2
    /\ read.arg = {tm.sorted_tokens[1]}
    /\ Cardinality(read.ret) = 2

\* C29: interval_to_range(range_to_interval(r)) = r for every token range r.
C29_RoundTrip == read.op = "interval_to_range" => read.ret = read.arg

\* C30: on an empty sorted_tokens, first_token, first_token_index and
\* ring_range fail instead of returning a token, and the snapshot is unchanged.
C30_EmptyRing ==
    /\ []((tm.sorted_tokens = <<>> /\ read.op \in {"first_token", "first_token_index",
                                                   "ring_range", "ring_range_from"})
            => read.err)
    /\ [][read'.op \in {"first_token", "first_token_index", "ring_range",
                        "ring_range_from"} => tm' = tm]_vars

\* ring_range was refused on an empty ring.
C30_Witness ==
    /\ tm.sorted_tokens = <<>>
    /\ read.op = "ring_range_from"
    /\ read.err

\* ---------------------------------------------------------------- C22..C24
NoTransitions(t) ==
    /\ t.bootstrap_tokens = EmptyMap
    /\ t.leaving_endpoints = {}
    /\ t.replacing_endpoints = EmptyMap

KeyspaceAbsent(t) == Keyspace \notin DOMAIN t.pending_ranges_interval_map

Updated == last.op = "update_pending_ranges" /\ ~last.err

ReplacementPending(existing) ==
    \A r \in get_ranges(last.ep, existing, tm) :
        \A t \in QueryTokens(tm) :
            range_contains(r, t) =>
                tm.replacing_endpoints[existing] \in pending_endpoints_for(tm, t, Keyspace)

\* C23: after add_replacing_endpoint(existing, replacement) followed by
\* update_pending_ranges, every token of every range of existing has the
\* replacement among its pending endpoints.
C23_ReplacementPending ==
    last.op = "update_pending_ranges" =>
        \A existing \in DOMAIN tm.replacing_endpoints : ReplacementPending(existing)

\* The same where update_pending_ranges returned.
C23_WhenUpdated ==
    Updated => \A existing \in DOMAIN tm.replacing_endpoints : ReplacementPending(existing)

\* update_pending_ranges returned with a replacement of a token owner in flight.
C23_WhenUpdatedWitness ==
    /\ Updated
    /\ \E existing \in DOMAIN tm.replacing_endpoints :
            get_ranges(last.ep, existing, tm) # {}

\* The three-node ring with D's bootstrap token, whatever the topology holds.
IsBootstrapD(t) ==
    /\ t.token_to_endpoint_map = ThreeNodeRing
    /\ t.bootstrap_tokens = 15 :> 4

PendingAt(tok) == pending_endpoints_for(tm, tok, Keyspace)

\* The snapshot in which the bootstrapping endpoint is simulated: every leaving
\* endpoint left, the endpoint joined with its bootstrap tokens as normal ones.
Simulated(endpoint) ==
    LET all_left == clone_after_all_left(tm, 0).tm
        tokens == {k \in DOMAIN tm.bootstrap_tokens : tm.bootstrap_tokens[k] = endpoint}
    IN update_normal_tokens(update_topology(all_left, 0, endpoint).tm, 0, tokens, endpoint).tm

BootstrapPending(endpoint) ==
    \A r \in get_ranges(last.ep, endpoint, Simulated(endpoint)) :
        \A t \in QueryTokens(tm) :
            range_contains(r, t) => endpoint \in PendingAt(t)

\* C24: on the ring A:10, B:20, C:30 with add_bootstrap_token(15, D),
\* pending_endpoints_for(15) is empty before update_pending_ranges; after
\* update_pending_ranges with a single-replica strategy it contains D and
\* pending_endpoints_for(25) does not; and after any update_pending_ranges
\* every range the strategy gives a bootstrapping endpoint in its simulated
\* snapshot is pending for that endpoint.
C24_BootstrapPending ==
    /\ (IsBootstrapD(tm) /\ last.op = "init") => PendingAt(15) = {}
    /\ (IsBootstrapD(tm) /\ last.op = "update_pending_ranges" /\ last.ep = 1) =>
            4 \in PendingAt(15) /\ 4 \notin PendingAt(25)
    /\ last.op = "update_pending_ranges" =>
            \A endpoint \in Range(tm.bootstrap_tokens) : BootstrapPending(endpoint)

\* The same where update_pending_ranges returned.
C24_WhenUpdated ==
    /\ (IsBootstrapD(tm) /\ last.op = "init") => PendingAt(15) = {}
    /\ (IsBootstrapD(tm) /\ Updated /\ last.ep = 1) =>
            4 \in PendingAt(15) /\ 4 \notin PendingAt(25)
    /\ Updated => \A endpoint \in Range(tm.bootstrap_tokens) : BootstrapPending(endpoint)

\* update_pending_ranges with a single replica returned on the three-node ring
\* with D bootstrapping, and token 15 was looked up.
C24_WhenUpdatedWitness ==
    /\ IsBootstrapD(tm) /\ Updated /\ last.ep = 1
    /\ read.op = "pending_endpoints_for" /\ read.arg = 15 /\ read.ret = {4}

\* ---------------------------------------------------------------- C40
\* C40: clone_after_all_left returns a snapshot that holds no leaving endpoint
\* in its token map, owners or topology, keeps the owner of every token of a
\* non-leaving endpoint, has sorted_tokens equal to the ascending sort of the
\* remaining keys and empty bootstrap, leaving, replacing and pending-range
\* containers; the snapshot it was cloned from is unchanged.
C40_AllLeft ==
    /\ [](read.op = "clone_after_all_left" =>
            LET c == read.ret
                stay == {k \in DOMAIN tm.token_to_endpoint_map :
                            tm.token_to_endpoint_map[k] \notin tm.leaving_endpoints}
            IN /\ Range(c.token_to_endpoint_map) \cap tm.leaving_endpoints = {}
               /\ c.normal_token_owners \cap tm.leaving_endpoints = {}
               /\ \A e \in tm.leaving_endpoints : ~has_endpoint(c.topology, e)
               /\ c.token_to_endpoint_map = Restrict(tm.token_to_endpoint_map, stay)
               /\ c.sorted_tokens = SortSet(stay)
               /\ c.bootstrap_tokens = EmptyMap
               /\ c.leaving_endpoints = {}
               /\ c.replacing_endpoints = EmptyMap
               /\ c.pending_ranges_interval_map = EmptyMap)
    /\ [][read'.op = "clone_after_all_left" => tm' = tm]_vars

\* The clone was taken while a token owner was leaving, another endpoint kept
\* its tokens, and pending ranges were in place.
C40_Witness ==
    /\ read.op = "clone_after_all_left"
    /\ Range(tm.token_to_endpoint_map) \cap tm.leaving_endpoints # {}
    /\ read.ret.sorted_tokens # <<>>
    /\ tm.pending_ranges_interval_map # EmptyMap

\* ---------------------------------------------------------------- C33
\* The current token map with every leaving endpoint removed.
AfterAllLeft(t) ==
    LET stay == {k \in DOMAIN t.token_to_endpoint_map :
                    t.token_to_endpoint_map[k] \notin t.leaving_endpoints}
    IN [EmptyTM EXCEPT !.token_to_endpoint_map = Restrict(t.token_to_endpoint_map, stay),
                       !.normal_token_owners = t.normal_token_owners \ t.leaving_endpoints,
                       !.topology = t.topology \ t.leaving_endpoints,
                       !.sorted_tokens = SortSet(stay)]

EndOrMaximum(r) == IF r.end = Unbounded THEN maximum_token ELSE r.end[1].value

\* The pairs <<range, endpoint>> the last update_pending_ranges computed for
\* the leaves (last.ep holds its replication factor).
LeaveContribution ==
    calculate_pending_ranges_for_leaving(tm, last.ep, clone_after_all_left(tm, 0).tm)

LeavingRanges == UNION {get_ranges(last.ep, e, tm) : e \in tm.leaving_endpoints}

\* C33: with leaving endpoints present, update_pending_ranges makes e a pending
\* owner, due to the leaves, of a range r of a leaving endpoint exactly when e
\* is a natural endpoint of the end of r (or maximum_token) in the
\* after-all-left snapshot and not in the current one; where the call returns,
\* e is then reported for every token of r.
C33_LeavePending ==
    (last.op = "update_pending_ranges" /\ tm.leaving_endpoints # {}) =>
        /\ {p[1] : p \in LeaveContribution} \subseteq LeavingRanges
        /\ \A r \in LeavingRanges :
             \A e \in Endpoints \cup tm.topology \cup {p[2] : p \in LeaveContribution} :
                <<r, e>> \in LeaveContribution <=>
                    /\ e \in calculate_natural_endpoints(last.ep, EndOrMaximum(r),
                                                         AfterAllLeft(tm))
                    /\ e \notin calculate_natural_endpoints(last.ep, EndOrMaximum(r), tm)
        /\ Updated =>
             \A p \in LeaveContribution :
                \A t \in QueryTokens(tm) :
                    range_contains(p[1], t) => p[2] \in PendingAt(t)

\* An endpoint became pending for the range of a leaving token owner, and a
\* token of that range was looked up.
C33_Witness ==
    /\ Updated
    /\ tm.leaving_endpoints # {}
    /\ read.op = "pending_endpoints_for"
    /\ \E p \in LeaveContribution :
          /\ range_contains(p[1], read.arg)
          /\ p[2] \in read.ret
          /\ p[2] \notin tm.leaving_endpoints

\* ---------------------------------------------------------------- C34
\* The step is a call of update_pending_ranges on tm.
UpdateStep == last'.op = "update_pending_ranges" /\ read' = NoRead

\* The pairs update_pending_ranges computes on the snapshot.
Computed(t, rf, order) ==
    LET all_left == clone_after_all_left(t, 0).tm
    IN calculate_pending_ranges_for_replacing(t, rf)
         \cup calculate_pending_ranges_for_leaving(t, rf, all_left)
         \cup calculate_pending_ranges_for_bootstrap(t, rf, all_left, 0, order).ranges

\* The snapshot without any entry of the keyspace.
Erased(t) ==
    [t EXCEPT !.pending_ranges_interval_map = Restrict(@, DOMAIN @ \ {Keyspace})]

\* C34: update_pending_ranges changes only the pending-range entry of its
\* keyspace: the entry it installs is the one it would install had there been
\* no prior entry, the entry is deleted when the computed result is empty, the
\* entries of other keyspaces, the token map, sorted tokens, owners, bootstrap
\* tokens, leaving and replacing endpoints, topology and ring version stay.
C34_OnlyKeyspaceEntry ==
    [][UpdateStep =>
        /\ tm'.token_to_endpoint_map = tm.token_to_endpoint_map
        /\ tm'.sorted_tokens = tm.sorted_tokens
        /\ tm'.normal_token_owners = tm.normal_token_owners
        /\ tm'.bootstrap_tokens = tm.bootstrap_tokens
        /\ tm'.leaving_endpoints = tm.leaving_endpoints
        /\ tm'.replacing_endpoints = tm.replacing_endpoints
        /\ tm'.topology = tm.topology
        /\ tm'.ring_version = tm.ring_version
        /\ Restrict(tm'.pending_ranges_interval_map,
                    DOMAIN tm'.pending_ranges_interval_map \ {Keyspace})
             = Restrict(tm.pending_ranges_interval_map,
                        DOMAIN tm.pending_ranges_interval_map \ {Keyspace})
        /\ ~last'.err =>
             /\ tm'.pending_ranges_interval_map =
                  update_pending_ranges(Erased(tm), 0, last'.ep, Keyspace, last'.order)
                      .tm.pending_ranges_interval_map
             /\ KeyspaceAbsent(tm') <=> Computed(tm, last'.ep, last'.order) = {}
      ]_vars

\* update_pending_ranges installed an entry for the keyspace next to the entry
\* of another keyspace, which kept other ranges.
C34_Witness ==
    /\ Updated
    /\ ~KeyspaceAbsent(tm)
    /\ OtherKeyspace \in DOMAIN tm.pending_ranges_interval_map
    /\ tm.pending_ranges_interval_map[OtherKeyspace] # tm.pending_ranges_interval_map[Keyspace]

\* ---------------------------------------------------------------- C35
\* The ranges the last update_pending_ranges computed for the bootstrapping
\* endpoint, simulated in the turn last.order.
BootstrapRanges(endpoint) ==
    {p[1] : p \in {q \in calculate_pending_ranges_for_bootstrap(
                             tm, last.ep, clone_after_all_left(tm, 0).tm, 0, last.order).ranges :
                      q[2] = endpoint}}

\* C35: the pending ranges computed for a bootstrapping endpoint are those the
\* strategy gives it on the after-all-left snapshot with its own tokens
\* installed, whatever the turn of the simulation and whichever other
\* endpoints are bootstrapping.
C35_OrderIndependent ==
    last.op = "update_pending_ranges" =>
        \A endpoint \in Range(tm.bootstrap_tokens) :
            BootstrapRanges(endpoint) = get_ranges(last.ep, endpoint, Simulated(endpoint))

\* The same for bootstrapping endpoints that own no normal tokens.
C35_WhenNoneOwnsTokens ==
    (last.op = "update_pending_ranges"
        /\ Range(tm.bootstrap_tokens) \cap Range(tm.token_to_endpoint_map)
             \subseteq tm.leaving_endpoints) =>
        \A endpoint \in Range(tm.bootstrap_tokens) :
            BootstrapRanges(endpoint) = get_ranges(last.ep, endpoint, Simulated(endpoint))

\* Two endpoints without normal tokens were simulated, the greater one first.
C35_WhenNoneOwnsTokensWitness ==
    /\ Updated
    /\ Len(last.order) = 2 /\ last.order[1] > last.order[2]
    /\ Range(tm.bootstrap_tokens) \cap Range(tm.token_to_endpoint_map) = {}

\* ---------------------------------------------------------------- C38
\* The endpoints held by the pending-range entries of the snapshot: those
\* pending_endpoints_for and has_pending_ranges can report.
PendingOwners(t) ==
    UNION {UNION {e[2] : e \in t.pending_ranges_interval_map[k]} :
              k \in DOMAIN t.pending_ranges_interval_map}

\* C38: every endpoint held by a pending-range entry is in the topology of the
\* snapshot, also after remove_endpoint of a pending owner; and
\* update_pending_ranges fails when a computed pending owner is not in the
\* topology.
C38_PendingOwnersInTopology ==
    /\ \A k \in DOMAIN tm.pending_ranges_interval_map :
          \A e \in PendingOwners(tm) :
             has_pending_ranges(tm, k, e) => has_endpoint(tm.topology, e)
    /\ (last.op = "update_pending_ranges"
          /\ \E p \in Computed(tm, last.ep, last.order) : ~has_endpoint(tm.topology, p[2]))
        => last.err

\* What holds: a returning update_pending_ranges leaves only topology members
\* in the keyspace's entry, and a failing one leaves the snapshot as it was.
C38_AtUpdate ==
    /\ [](Updated =>
            /\ \A p \in Computed(tm, last.ep, last.order) : has_endpoint(tm.topology, p[2])
            /\ ~KeyspaceAbsent(tm) =>
                 \A e \in tm.pending_ranges_interval_map[Keyspace] :
                    \A x \in e[2] : has_endpoint(tm.topology, x))
    /\ [][(UpdateStep /\ last'.err) => tm' = tm]_vars

\* ---------------------------------------------------------------- C31
\* C31: the ring version is one process-wide counter: the version an
\* invalidate_cached_rings call assigns, on any snapshot and any worker, is
\* strictly greater than every version assigned before, on any worker.
C31_ProcessWideCounter ==
    [][\A w \in Workers :
          static_ring_version'[w] # static_ring_version[w] =>
              \A x \in Workers : static_ring_version'[w] > static_ring_version[x]]_vars

\* What holds: the versions assigned on one worker increase strictly.
C31_PerWorkerCounter ==
    [][\A w \in Workers :
          static_ring_version'[w] # static_ring_version[w] =>
              static_ring_version'[w] > static_ring_version[w]]_vars

\* ---------------------------------------------------------------- C36
\* C36: on every worker, the clone of a mutate_token_metadata call has, once
\* bumped, a version strictly greater than the worker's published version, and
\* the call's set never raises the non-increasing-version error.
C36_LocalCommitSucceeds ==
    /\ \A c \in LocalCalls :
          InCallback(c) =>
              heap[cb[c].obj].ring_version > heap[shared[worker_of(c)]].ring_version
    /\ ~(hist.kind = "internal_error" /\ hist.call \in LocalCalls)

\* ---------------------------------------------------------------- C37
\* C37: a mutate_on_all_shards call and a mutate_token_metadata call, on any
\* worker, are never both between their clone and their install, and neither
\* fails with the non-increasing-version error.
C37_NoOverlap ==
    /\ \A c \in LocalCalls : ~(HoldsLock(c) /\ HoldsLock(0))
    /\ hist.kind # "internal_error"

\* What holds: the calls of worker 0 exclude each other, and no set on worker 0
\* is refused.
C37_OnWorkerZero ==
    /\ \A c \in LocalCalls : worker_of(c) = 0 => ~(HoldsLock(c) /\ HoldsLock(0))
    /\ ~(hist.kind = "internal_error" /\ hist.worker = 0)

\* ---------------------------------------------------------------- C32
\* C32: when mutate_token_metadata commits a snapshot, the snapshot's ring
\* version equals the current value of the worker's ring-version counter, also
\* when the callback ran update_pending_ranges after the snapshot's last
\* invalidation.
CommitStep(c) == pc[c] = "func" /\ pc'[c] = "idle" /\ shared'[worker_of(c)] = cb[c].obj

C32_CommittedVersionIsCounter ==
    [][\A c \in LocalCalls :
          CommitStep(c) =>
              heap'[shared'[worker_of(c)]].ring_version = static_ring_version'[worker_of(c)]]_vars

\* What holds: a committed snapshot's version is never above the counter.
C32_CommittedVersionAtMostCounter ==
    [][\A c \in LocalCalls :
          CommitStep(c) =>
              heap'[shared'[worker_of(c)]].ring_version <= static_ring_version'[worker_of(c)]]_vars

\* ---------------------------------------------------------------- C39
\* C39: every mutate_token_metadata call that waits for the lock eventually
\* acquires it, clones and runs its callback, when the callbacks of the calls
\* ahead of it terminate.
C39_EventuallyAcquires ==
    \A c \in LocalCalls : (pc[c] = "waiting") ~> (pc[c] = "func")

\* What holds: a waiting call acquires the lock unless a set raised the
\* internal error and ended the process.
C39_AcquiresUnlessCrashed ==
    \A c \in LocalCalls : (pc[c] = "waiting") ~> (pc[c] = "func" \/ crashed)
====
